---- MODULE Spec2Model ----
(***************************************************************************)
(* Smart Content Moderator: the moderation pipeline (api/text_moderation,  *)
(* api/image_moderation), the Gemini analyzer (services/moderation_service)*)
(* and the notification dispatcher (services/notification_service), over a *)
(* transactional store with three tables (models/moderation).              *)
(*                                                                         *)
(* Numbers that are floats in the source are counted in hundredths:        *)
(* 0.85 is 85, 0.0 is 0.  Python's None is the string "None" where the     *)
(* value is a string and -1 where it is a number.                          *)
(***************************************************************************)
EXTENDS Integers, Sequences, FiniteSets, TLC

\* ------------------------------------------------------------------ bounds
\* Number of submissions (handler invocations) a behaviour contains.
NumSubs == 2
\* Longest list of safety ratings of a response in a direct analyzer call.
MaxRatings == 2

\* Longest text or byte string whose hash is computed in a direct call.
MaxLen == 3

\* Most Requests a store holds when the list endpoint is called directly.
MaxRows == 3

Subs == 1..NumSubs

None == "None"
NoId == 0

\* ------------------------------------------------------------ environment
\* os.getenv: a variable is unset (None), empty, or holds a value.
EnvNames == {"GOOGLE_API_KEY", "SLACK_WEBHOOK_URL", "BREVO_API_KEY", "EMAIL_FROM", "EMAIL_TO"}

\* A test that takes every set variable, the empty one included, as present.
Truthy_unless_None(v) == v /= None

\* Python truthiness of an os.getenv result: None and "" are falsy.
Truthy(v) == v /= None /\ v /= ""

\* The process environments of the pipeline runs: the backend key is set, each
\* notification channel is configured or not.
PipelineEnvs ==
    { [GOOGLE_API_KEY |-> g, SLACK_WEBHOOK_URL |-> s, BREVO_API_KEY |-> b,
       EMAIL_FROM |-> a, EMAIL_TO |-> a] :
        g \in {"key"}, s \in {None, "https://hooks"}, b \in {None, "key"},
        a \in {"ops@example"} }

\* ------------------------------------------------------------------ hashing
\* A str is a sequence of code points, bytes a sequence of 0..255.
\* str.encode(): UTF-8, here for code points below 2048.
RECURSIVE encode(_)
encode(s) ==
    IF s = <<>> THEN <<>>
    ELSE LET c == Head(s)
         IN  (IF c < 128 THEN <<c>> ELSE <<192 + (c \div 64), 128 + (c % 64)>>)
             \o encode(Tail(s))

\* hashlib.sha256(b).hexdigest(): a digest that depends on the bytes alone; the
\* model takes it collision-free, the digest of b being b itself under a tag.
sha256_hexdigest(b) == <<"sha256", b>>

\* A text hash over the code points, without the UTF-8 encoding.
generate_content_hash_of_code_points(content) == sha256_hexdigest(content)

generate_content_hash(content) == sha256_hexdigest(encode(content))

generate_image_hash(image_bytes) == sha256_hexdigest(image_bytes)

\* ------------------------------------------------------- backend responses
\* The text of a response is a sequence of words.  str.lower() and the substring
\* test `word in text` over the words the model uses.
lower(w) ==
    CASE w = "HARMFUL" -> "harmful"
      [] w = "Flagged" -> "flagged"
      [] OTHER -> w

TriggerWords == {"inappropriate", "problematic", "flagged", "harmful"}

\* The trigger words that occur as substrings of a lower-case word.
SubstringsOf(w) ==
    CASE w = "flagged_categories" -> {"flagged"}
      [] w = "unproblematic" -> {"problematic"}
      [] w \in TriggerWords -> {w}
      [] OTHER -> {}

\* any(word in gemini_analysis.lower() for word in [...])
mentions_problem(text) ==
    \E i \in 1..Len(text) : SubstringsOf(lower(text[i])) /= {}

\* cls.HARM_CATEGORIES.get(name, name)
HARM_CATEGORIES(name) ==
    CASE name = "HARM_CATEGORY_HATE_SPEECH" -> "hate_speech"
      [] name = "HARM_CATEGORY_DANGEROUS_CONTENT" -> "dangerous_content"
      [] name = "HARM_CATEGORY_HARASSMENT" -> "harassment"
      [] name = "HARM_CATEGORY_SEXUALLY_EXPLICIT" -> "sexually_explicit"
      [] OTHER -> name

\* A score table with MEDIUM at 0.5.
HARM_PROBABILITY_SCORES_medium_half(probability) ==
    CASE probability = "NEGLIGIBLE" -> 10
      [] probability = "LOW" -> 30
      [] probability = "MEDIUM" -> 50
      [] probability = "HIGH" -> 90
      [] OTHER -> 0

\* A score table in percent: 10.0, 30.0, 60.0, 90.0.
HARM_PROBABILITY_SCORES_in_percent(probability) ==
    CASE probability = "NEGLIGIBLE" -> 1000
      [] probability = "LOW" -> 3000
      [] probability = "MEDIUM" -> 6000
      [] probability = "HIGH" -> 9000
      [] OTHER -> 0

\* cls.HARM_PROBABILITY_SCORES.get(probability, 0.0), in hundredths
HARM_PROBABILITY_SCORES(probability) ==
    CASE probability = "NEGLIGIBLE" -> 10
      [] probability = "LOW" -> 30
      [] probability = "MEDIUM" -> 60
      [] probability = "HIGH" -> 90
      [] OTHER -> 0

Max(a, b) == IF a >= b THEN a ELSE b

\* The loop over response.candidates[0].safety_ratings: the running max_score,
\* the flagged categories in rating order and the safety_ratings dict (here the
\* list of its entries in insertion order).
RECURSIVE rate(_, _)
rate(ratings, acc) ==
    IF ratings = <<>> THEN acc
    ELSE LET r == Head(ratings)
             category_name == HARM_CATEGORIES(r.category)
             score == HARM_PROBABILITY_SCORES(r.probability)
         IN  rate(Tail(ratings),
                  [max_score |-> Max(acc.max_score, score),
                   flagged_categories |->
                       IF r.probability \in {"MEDIUM", "HIGH"}
                       THEN Append(acc.flagged_categories, category_name)
                       ELSE acc.flagged_categories,
                   safety_ratings |->
                       Append(acc.safety_ratings,
                              [category |-> category_name,
                               probability |-> r.probability, score |-> score])])

extract_safety_ratings(response) ==
    LET start == [max_score |-> 0, flagged_categories |-> <<>>, safety_ratings |-> <<>>]
    IN  IF response.candidates /= <<>> THEN rate(response.candidates[1], start) ELSE start

\* The text of a JSON array of strings, token by token: "[", the strings in list
\* order separated by ",", and "]".
Token(t, str) == [t |-> t, s |-> str]

RECURSIVE dump_items(_)
dump_items(list) ==
    IF list = <<>> THEN <<>>
    ELSE IF Len(list) = 1 THEN <<Token("str", Head(list))>>
    ELSE <<Token("str", Head(list)), Token(",", "")>> \o dump_items(Tail(list))

dump_array(list) == <<Token("[", "")>> \o dump_items(list) \o <<Token("]", "")>>

\* A parser that builds the list back to front.
load_array_reversed(tokens) ==
    LET inner == SubSeq(tokens, 2, Len(tokens) - 1)
        n == (Len(inner) + 1) \div 2
    IN  [raised |-> FALSE, value |-> [i \in 1..n |-> inner[2 * (n - i) + 1].s]]

\* Parsing the tokens of an array: anything but "[", strings separated by ",",
\* "]" is a JSONDecodeError.
load_array(tokens) ==
    LET inner == SubSeq(tokens, 2, Len(tokens) - 1)
        n == (Len(inner) + 1) \div 2
        well_formed ==
            /\ Len(tokens) >= 2
            /\ tokens[1].t = "[" /\ tokens[Len(tokens)].t = "]"
            /\ Len(inner) = 0 \/ Len(inner) % 2 = 1
            /\ \A i \in 1..Len(inner) :
                   inner[i].t = IF i % 2 = 1 THEN "str" ELSE ","
    IN  IF well_formed
        THEN [raised |-> FALSE, value |-> [i \in 1..n |-> inner[2 * i - 1].s]]
        ELSE [raised |-> TRUE, value |-> <<>>]

\* json.dumps of a dict: a JSON document whose members are the entries of the
\* dict under their keys; the list member flagged_categories is written out as
\* the tokens of its array.  Any other string is not JSON.
json_dumps(obj) ==
    [json |-> TRUE,
     value |-> [k \in DOMAIN obj |->
                   IF k = "flagged_categories" THEN dump_array(obj[k]) ELSE obj[k]]]

\* A payload that is None or the empty string.
NoText == [json |-> FALSE, value |-> <<>>]

\* json.loads: JSONDecodeError for text that is not JSON, else the dict of the
\* members, the array parsed back into a list.
json_loads(s) ==
    IF ~s.json THEN [raised |-> TRUE, value |-> <<>>]
    ELSE IF "flagged_categories" \in DOMAIN s.value
    THEN LET array == load_array(s.value.flagged_categories)
         IN  IF array.raised THEN [raised |-> TRUE, value |-> <<>>]
             ELSE [raised |-> FALSE,
                   value |-> [k \in DOMAIN s.value |->
                                 IF k = "flagged_categories" THEN array.value
                                 ELSE s.value[k]]]
    ELSE [raised |-> FALSE, value |-> s.value]

ResultKeys == {"classification", "confidence", "reasoning", "llm_response"}

\* An initialization that does not look at the flag.
initialize_gemini_always_configures(_initialized, environ) ==
    IF ~Truthy(environ.GOOGLE_API_KEY)
    THEN [raised |-> TRUE, e |-> "GOOGLE_API_KEY environment variable is not set",
          _initialized |-> FALSE, configured |-> FALSE]
    ELSE [raised |-> FALSE, e |-> None, _initialized |-> TRUE, configured |-> TRUE]

\* initialize_gemini: configures the backend once per process; raises ValueError
\* when GOOGLE_API_KEY is unset or empty.
initialize_gemini(_initialized, environ) ==
    IF ~_initialized
    THEN IF ~Truthy(environ.GOOGLE_API_KEY)
         THEN [raised |-> TRUE, e |-> "GOOGLE_API_KEY environment variable is not set",
               _initialized |-> FALSE, configured |-> FALSE]
         ELSE [raised |-> FALSE, e |-> None, _initialized |-> TRUE, configured |-> TRUE]
    ELSE [raised |-> FALSE, e |-> None, _initialized |-> TRUE, configured |-> FALSE]

\* Lines 102-164 of analyze_text and 234-302 of analyze_image: the result computed
\* from a response that was generated.  `what` is "content" or "image content",
\* `noun` is "Content" or "Image", `extra` the modality's own payload entries.
classify(response, what, noun, extra) ==
    LET rated == extract_safety_ratings(response)
        gemini_analysis == response.text
        is_appropriate_by_content ==
            ~(gemini_analysis /= <<>> /\ mentions_problem(gemini_analysis))
        is_inappropriate ==
            Len(rated.flagged_categories) > 0 \/ ~is_appropriate_by_content
    IN  [classification |-> IF is_inappropriate THEN "inappropriate" ELSE "appropriate",
         confidence |-> IF rated.max_score > 0 THEN rated.max_score ELSE 85,
         reasoning |->
             IF is_inappropriate
             THEN <<"Gemini detected potentially inappropriate", what,
                    rated.flagged_categories, noun, "requires review.">>
             ELSE <<"Gemini analysis indicates appropriate", what, <<>>, "",
                    "No safety concerns detected.">>,
         llm_response |->
             json_dumps([model |-> "gemini-flash-latest",
                         safety_ratings |-> rated.safety_ratings,
                         flagged_categories |-> rated.flagged_categories,
                         gemini_analysis |-> SubSeq(gemini_analysis, 1,
                                                    IF Len(gemini_analysis) < 500
                                                    THEN Len(gemini_analysis) ELSE 500),
                         extra |-> extra])]

\* A handler that lets the exception escape.
analyze_except_reraises(prefix, e) ==
    [raised |-> TRUE,
     value |-> [classification |-> "error", confidence |-> 0,
                reasoning |-> <<prefix, "", <<>>, "", e>>,
                llm_response |-> json_dumps([error |-> e])]]

\* The `except Exception as e` handler of analyze_text / analyze_image.
analyze_except(prefix, e) ==
    [raised |-> FALSE,
     value |-> [classification |-> "error",
                confidence |-> 0,
                reasoning |-> <<prefix, "", <<>>, "", e>>,
                llm_response |-> json_dumps([error |-> e])]]

\* A backend call: `fault` names the step that raises ("none": no step does),
\* `response` is what generate_content returns otherwise.
\*   response.candidates: the candidates, each its list of safety ratings
\*   response.text:       the words of the answer (<<>>: no text)
analyze_text(_initialized, environ, text, backend) ==
    LET init == initialize_gemini(_initialized, environ)
        r == IF init.raised THEN analyze_except("Error analyzing text: ", init.e)
             ELSE IF backend.fault = "generate_content"
             THEN analyze_except("Error analyzing text: ", "generate_content failed")
             ELSE IF backend.fault = "response_text"
             THEN analyze_except("Error analyzing text: ", "response.text is not available")
             ELSE [raised |-> FALSE,
                   value |-> classify(backend.response, "content", "Content",
                                      [text_length |-> Len(text)])]
    IN  [raised |-> r.raised, value |-> r.value,
         _initialized |-> init._initialized, configured |-> init.configured,
         uploaded |-> FALSE, delete_attempted |-> FALSE]

\* Image.open(io.BytesIO(image_bytes)) succeeds on bytes that start with the
\* signature of a format PIL knows (PNG 137, JPEG 255, GIF 71, WEBP/RIFF 82).
PIL_can_open(image_bytes) ==
    image_bytes /= <<>> /\ Head(image_bytes) \in {137, 255, 71, 82}

image_format(image_bytes) ==
    CASE Head(image_bytes) = 137 -> "PNG"
      [] Head(image_bytes) = 255 -> "JPEG"
      [] Head(image_bytes) = 71 -> "GIF"
      [] OTHER -> "WEBP"

analyze_image(_initialized, environ, image_bytes, backend) ==
    LET init == initialize_gemini(_initialized, environ)
        opened == ~init.raised /\ PIL_can_open(image_bytes)
        uploaded == opened /\ backend.fault /= "upload_file"
        generated == uploaded /\ backend.fault \notin {"generate_content", "response_text"}
        r == IF init.raised THEN analyze_except("Error processing image: ", init.e)
             ELSE IF ~opened
             THEN analyze_except("Error processing image: ", "cannot identify image file")
             ELSE IF ~uploaded
             THEN analyze_except("Error processing image: ", "upload_file failed")
             ELSE IF backend.fault = "generate_content"
             THEN analyze_except("Error processing image: ", "generate_content failed")
             ELSE IF backend.fault = "response_text"
             THEN analyze_except("Error processing image: ", "response.text is not available")
             ELSE [raised |-> FALSE,
                   value |-> classify(backend.response, "image content", "Image",
                                      [format |-> image_format(image_bytes)])]
    IN  [raised |-> r.raised, value |-> r.value,
         _initialized |-> init._initialized, configured |-> init.configured,
         uploaded |-> uploaded, delete_attempted |-> generated]

\* The steps of a backend call that can fail.
TextFaults == {"none", "generate_content", "response_text"}

ImageFaults == TextFaults \cup {"upload_file", "delete_file"}

\* ------------------------------------------------------------ notification
\* An HTTP exchange: the post raises (timeout, transport error) or answers with a
\* status code.
\* A message that is built from any arguments.
message_build_never_raises(args) == FALSE

\* Building the message raises when classification is None (.upper()) or the
\* confidence is None (the :.2% format); both are inside the channel's try block.
message_build_raises(args) == args.classification = None \/ args.confidence = -1

send_slack_notification(environ, args, http) ==
    LET webhook_url == environ.SLACK_WEBHOOK_URL
    IN  IF ~Truthy(webhook_url)
        THEN [status |-> "skipped", message |-> "Slack webhook URL not configured",
              posted |-> FALSE]
        ELSE IF message_build_raises(args)
        THEN [status |-> "failed", message |-> "Error sending Slack notification",
              posted |-> FALSE]
        ELSE IF http.raised
        THEN [status |-> "failed", message |-> "Error sending Slack notification",
              posted |-> TRUE]
        ELSE IF http.status_code = 200
        THEN [status |-> "sent", message |-> "Slack notification sent successfully",
              posted |-> TRUE]
        ELSE [status |-> "failed", message |-> "Slack API returned status",
              posted |-> TRUE]

send_email_notification(environ, args, http) ==
    LET brevo_api_key == environ.BREVO_API_KEY
        email_from == environ.EMAIL_FROM
        email_to == environ.EMAIL_TO
    IN  IF ~(Truthy(brevo_api_key) /\ Truthy(email_from) /\ Truthy(email_to))
        THEN [status |-> "skipped", message |-> "Brevo email configuration not complete",
              posted |-> FALSE]
        ELSE IF message_build_raises(args)
        THEN [status |-> "failed", message |-> "Error sending Brevo email notification",
              posted |-> FALSE]
        ELSE IF http.raised
        THEN [status |-> "failed", message |-> "Error sending Brevo email notification",
              posted |-> TRUE]
        ELSE IF http.status_code \in {200, 201}
        THEN [status |-> "sent", message |-> "Email notification sent successfully via Brevo",
              posted |-> TRUE]
        ELSE [status |-> "failed", message |-> "Brevo API returned status",
              posted |-> TRUE]

\* A channel that posts a second time after a failed post.
posts_with_retry(result) ==
    IF result.posted THEN (IF result.status = "failed" THEN 2 ELSE 1) ELSE 0

\* The client.post calls behind a channel's result: the one post of the function
\* (lines 127-131, 348-357) when it was reached, none otherwise.
posts(result) == IF result.posted THEN 1 ELSE 0

\* The channels whose configuration is present in an environment.
ConfiguredChannels(environ) ==
    (IF Truthy(environ.SLACK_WEBHOOK_URL) THEN {"slack"} ELSE {})
    \cup (IF Truthy(environ.BREVO_API_KEY) /\ Truthy(environ.EMAIL_FROM)
             /\ Truthy(environ.EMAIL_TO) THEN {"email"} ELSE {})

\* A dispatcher that gives up after a failed Slack send: results["email"] stays None.
notify_stops_after_slack_failure(environ, args, slack_http, email_http) ==
    LET slack == send_slack_notification(environ, args, slack_http)
    IN  [slack |-> slack,
         email |-> IF slack.status = "failed"
                   THEN [status |-> None, message |-> None, posted |-> FALSE]
                   ELSE send_email_notification(environ, args, email_http)]

\* notify_inappropriate_content: Slack first, then e-mail, each awaited in turn;
\* neither channel function lets an exception escape, so the call returns both.
notify_inappropriate_content(environ, args, slack_http, email_http) ==
    [slack |-> send_slack_notification(environ, args, slack_http),
     email |-> send_email_notification(environ, args, email_http)]

\* ------------------------------------------------------------------- store
\* The committed database: three tables, each a sequence of rows in insertion
\* order; the autoincrement id of a row is its position.
EmptyStore ==
    [moderation_requests |-> <<>>, moderation_results |-> <<>>, notification_logs |-> <<>>]

\* A Session: the objects added and the attribute changes made since the last
\* commit or rollback.
EmptySession == [new |-> <<>>, dirty |-> <<>>]

\* db.add(obj)
add(sess, table, obj) == [sess EXCEPT !.new = Append(@, [table |-> table, obj |-> obj])]

\* moderation_request.status = value, on an object this session has loaded
set_status(sess, id, value) == [sess EXCEPT !.dirty = Append(@, [id |-> id, status |-> value])]

\* db.rollback()
rollback(sess) == EmptySession

\* func.now() of the database server when a Request is inserted: a logical clock
\* that has advanced once for every Request inserted before.
now(st) == Len(st.moderation_requests) + 1

\* One INSERT: the row gets the next autoincrement id of its table, and a Request
\* the server default of created_at.
insert(st, table, obj) ==
    [st EXCEPT ![table] =
        Append(@, IF table = "moderation_requests"
                  THEN [obj EXCEPT !.id = Len(st[table]) + 1, !.created_at = now(st)]
                  ELSE [obj EXCEPT !.id = Len(st[table]) + 1])]

RECURSIVE flush_new(_, _)
flush_new(st, new) ==
    IF new = <<>> THEN st
    ELSE flush_new(insert(st, Head(new).table, Head(new).obj), Tail(new))

\* An UPDATE under a created_at column declared with onupdate=func.now().
RECURSIVE flush_dirty_stamping_created_at(_, _)
flush_dirty_stamping_created_at(st, dirty) ==
    IF dirty = <<>> THEN st
    ELSE flush_dirty_stamping_created_at(
             [st EXCEPT !.moderation_requests[Head(dirty).id].status = Head(dirty).status,
                        !.moderation_requests[Head(dirty).id].created_at = now(st) + 1],
             Tail(dirty))

RECURSIVE flush_dirty(_, _)
flush_dirty(st, dirty) ==
    IF dirty = <<>> THEN st
    ELSE flush_dirty([st EXCEPT !.moderation_requests[Head(dirty).id].status =
                                    Head(dirty).status],
                     Tail(dirty))

\* db.commit() that succeeds: every pending INSERT and UPDATE of the session
\* becomes visible at once.
commit(st, sess) == flush_dirty(flush_new(st, sess.new), sess.dirty)

\* ------------------------------------------------------------------ models
\* The attributes models/moderation.py declares on ModerationRequest.
RequestColumns ==
    {"id", "content_type", "content_hash", "status", "created_at", "results", "notifications"}

\* The keyword arguments each handler passes to ModerationRequest(...).
TextRequestKwargs == {"content_type", "content_hash", "user_email", "status"}

ImageRequestKwargs == {"content_type", "content_hash", "status"}

\* ModerationRequest(**kwargs) under a constructor that checks its keywords
\* (SQLAlchemy's default) raises TypeError for a keyword that is no attribute.
constructor_raises(checks_keywords, kwargs) ==
    checks_keywords /\ ~(kwargs \subseteq RequestColumns)

ModerationRequest(content_type, content_hash, user_email, status) ==
    [id |-> NoId, content_type |-> content_type, content_hash |-> content_hash,
     user_email |-> user_email, status |-> status, created_at |-> -1]

\* A Result that is always linked to the first Request.
ModerationResult_linked_to_first(request_id, analysis_result) ==
    [id |-> NoId, request_id |-> 1,
     classification |-> analysis_result.classification,
     confidence |-> analysis_result.confidence,
     reasoning |-> analysis_result.reasoning,
     llm_response |-> analysis_result.llm_response]

ModerationResult(request_id, analysis_result) ==
    [id |-> NoId, request_id |-> request_id,
     classification |-> analysis_result.classification,
     confidence |-> analysis_result.confidence,
     reasoning |-> analysis_result.reasoning,
     llm_response |-> analysis_result.llm_response]

\* A log row that is always linked to the first Request.
NotificationLog_linked_to_first(request_id, channel, status) ==
    [id |-> NoId, request_id |-> 1, channel |-> channel, status |-> status]

NotificationLog(request_id, channel, status) ==
    [id |-> NoId, request_id |-> request_id, channel |-> channel, status |-> status]

\* ---------------------------------------------------------------- pipeline
\* Inputs of the pipeline runs.
TextInputs == {<<104, 105>>}

UserEmails == {None, "user@example"}

\* A list of allowed types that lets PDF uploads through.
AllowedTypes_with_pdf ==
    {"image/jpeg", "image/jpg", "image/png", "image/gif", "image/webp", "application/pdf"}

AllowedTypes == {"image/jpeg", "image/jpg", "image/png", "image/gif", "image/webp"}

MimeTypes == {"image/png", "application/pdf"}

ImageInputs == {<<137, 80>>, <<0>>}

NoRatings == [candidates |-> <<>>, text |-> <<>>]

\* What the backend does in a pipeline run: it fails, or it answers with no rating
\* or one HIGH rating, and a text that does or does not hold a trigger word.
PipelineBackends ==
    { [fault |-> "generate_content", response |-> NoRatings] }
    \cup { [fault |-> "none", response |-> [candidates |-> <<l>>, text |-> t]] :
             l \in { <<>>, <<[category |-> "HARM_CATEGORY_HARASSMENT",
                              probability |-> "HIGH"]>> },
             t \in {<<"ok">>, <<"flagged_categories">>} }

HttpOutcomes ==
    { [raised |-> TRUE, status_code |-> 0] }
    \cup { [raised |-> FALSE, status_code |-> c] : c \in {200, 201, 500} }

\* In a pipeline run a post is answered with 200 or raises.
PipelineHttp == { h \in HttpOutcomes : h.raised \/ h.status_code = 200 }

VARIABLES
    environ,               \* os.environ of the process
    checks_keywords,       \* whether Base's constructor rejects unknown keywords
    submitter,             \* the user_email the caller sent with each submission
    declared,              \* image.content_type, the type an upload declares
    initialized,           \* ModerationService._initialized
    configures,            \* how often genai.configure has been executed
    store,                 \* the committed database
    pc,                    \* where each submission's handler stands
    content_type,          \* "text" or "image", per submission
    content,               \* request.text / image_bytes, per submission
    session,               \* db, the handler's Session
    transaction,           \* whether that Session has a transaction open on the store
    moderation_request,    \* the id of the Request row the handler inserted
    analysis_result,       \* the analyzer's return value
    notification_results,  \* the dispatcher's return value
    response,              \* the ModerationResponse returned
    error,                 \* the HTTPException raised
    calls,                 \* per submission: analyzer and dispatcher invocations, posts
    call,                  \* a direct call of a service function: its arguments
    ret                    \* and what it returned

vars == <<environ, checks_keywords, submitter, declared, initialized, configures, store, pc, content_type,
          content, session, transaction, moderation_request, analysis_result, notification_results,
          response, error, calls, call, ret>>

NoResult == [classification |-> None, confidence |-> -1, reasoning |-> <<>>,
             llm_response |-> NoText]

NoNotification == [status |-> None, message |-> None, posted |-> FALSE]

NoResults == [slack |-> NoNotification, email |-> NoNotification]

NoResponse == [request_id |-> NoId, status |-> None, message |-> None]

NoError == [status_code |-> 0, detail |-> None]

NoCalls == [analyzer |-> 0, dispatcher |-> 0, slack |-> 0, email |-> 0]

NoCall == [function |-> None]

\* moderate_text line 58: the status the text handler assigns after analysis.
text_status(classification) == "completed"

\* An image path that, like the text path, ignores the classification.
image_status_always_completed(classification) == "completed"

\* moderate_image line 68: "completed" unless the classification is "error".
image_status(classification) ==
    IF classification /= "error" THEN "completed" ELSE "failed"

status_after_analysis(type, classification) ==
    IF type = "text" THEN text_status(classification) ELSE image_status(classification)

\* A guard that notifies for everything that is not "appropriate".
should_notify_unless_appropriate(result) == result.classification /= "appropriate"

\* Line 62 (text) / 72 (image): the guard of the notification block.
should_notify(result) == result.classification = "inappropriate"

\* Lines 65-71 (text) / 76-82 (image): flagged_categories out of llm_response;
\* an empty payload, invalid JSON or a missing key leave the empty list.
extract_flagged_categories(result) ==
    IF result.llm_response = NoText THEN <<>>
    ELSE LET llm_data == json_loads(result.llm_response)
         IN  IF llm_data.raised THEN <<>>
             ELSE IF "flagged_categories" \in DOMAIN llm_data.value
             THEN llm_data.value.flagged_categories
             ELSE <<>>

\* The arguments the handler passes to notify_inappropriate_content.
notification_args(request_id, type, result) ==
    [request_id |-> request_id, content_type |-> type,
     classification |-> result.classification, confidence |-> result.confidence,
     reasoning |-> result.reasoning,
     flagged_categories |-> extract_flagged_categories(result)]

\* A loop that logs every result it is given, skipped ones too.
is_logged_always(result) == result.status /= None

\* Line 85 (text) / 96 (image): a channel's result is logged unless it is missing
\* or "skipped".
is_logged(result) == result.status /= None /\ result.status /= "skipped"

\* A loop that adds the Slack row twice.
add_notification_logs_twice(sess, request_id, results) ==
    LET with_slack ==
            IF is_logged(results.slack)
            THEN add(add(sess, "notification_logs",
                         NotificationLog(request_id, "slack", results.slack.status)),
                     "notification_logs",
                     NotificationLog(request_id, "slack", results.slack.status))
            ELSE sess
    IN  IF is_logged(results.email)
        THEN add(with_slack, "notification_logs",
                 NotificationLog(request_id, "email", results.email.status))
        ELSE with_slack

\* A loop that only logs the Slack result.
add_notification_logs_slack_only(sess, request_id, results) ==
    IF is_logged(results.slack)
    THEN add(sess, "notification_logs",
             NotificationLog(request_id, "slack", results.slack.status))
    ELSE sess

\* Lines 84-91 (text) / 95-102 (image): one NotificationLog per logged channel,
\* in the order of the results dict (slack, email), added to the session.
add_notification_logs(sess, request_id, results) ==
    LET with_slack ==
            IF is_logged(results.slack)
            THEN add(sess, "notification_logs",
                     NotificationLog(request_id, "slack", results.slack.status))
            ELSE sess
    IN  IF is_logged(results.email)
        THEN add(with_slack, "notification_logs",
                 NotificationLog(request_id, "email", results.email.status))
        ELSE with_slack

\* A notification handler that undoes the analysis: the Result of the Request is
\* overwritten with an "error" classification.
notification_error_changes_result(st, request_id) ==
    [store |-> [st EXCEPT !.moderation_results =
                   [j \in 1..Len(@) |->
                       IF @[j].request_id = request_id
                       THEN [@[j] EXCEPT !.classification = "error"]
                       ELSE @[j]]],
     reraise |-> FALSE]

\* A notification handler that marks the Request failed.
notification_error_marks_failed(st, request_id) ==
    [store |-> [st EXCEPT !.moderation_requests[request_id].status = "failed"],
     reraise |-> FALSE]

\* A notification handler that raises the error again.
notification_error_reraises(st, request_id) == [store |-> st, reraise |-> TRUE]

\* Lines 95-97 (text) / 106-108 (image): `except Exception as notification_error`
\* prints the error: the store is left as it was, nothing is raised again and the
\* handler goes on to its return statement.
notification_error(st, request_id) == [store |-> st, reraise |-> FALSE]

\* A handler that adds the Result twice.
result_session_adds_twice(sess, request_id, type, result) ==
    set_status(add(add(sess, "moderation_results", ModerationResult(request_id, result)),
                   "moderation_results", ModerationResult(request_id, result)),
               request_id, status_after_analysis(type, result.classification))

\* A handler that assigns the status and forgets db.add(moderation_result).
result_session_without_add(sess, request_id, type, result) ==
    set_status(sess, request_id, status_after_analysis(type, result.classification))

\* Lines 46-58 (text) / 58-68 (image): the session after the Result is added and
\* the status assigned, before the commit.
result_session(sess, request_id, type, result) ==
    set_status(add(sess, "moderation_results", ModerationResult(request_id, result)),
               request_id, status_after_analysis(type, result.classification))

\* Lines 99-103 (text): the literal status "completed".
text_response(request_id, st, result) ==
    [request_id |-> request_id, status |-> "completed", message |-> result.classification]

\* An image response with the literal status of the text path.
image_response_literal(request_id, st, result) ==
    [request_id |-> request_id, status |-> "completed", message |-> result.classification]

\* Lines 110-114 (image): the status attribute of the Request object.
image_response(request_id, st, result) ==
    [request_id |-> request_id, status |-> st.moderation_requests[request_id].status,
     message |-> result.classification]

make_response(type, request_id, st, result) ==
    IF type = "text" THEN text_response(request_id, st, result)
    ELSE image_response(request_id, st, result)

Init ==
    /\ environ \in PipelineEnvs
    /\ checks_keywords \in BOOLEAN
    /\ submitter = [s \in Subs |-> None]
    /\ declared = [s \in Subs |-> None]
    /\ initialized = FALSE
    /\ configures = 0
    /\ store = EmptyStore
    /\ pc = [s \in Subs |-> "idle"]
    /\ content_type = [s \in Subs |-> None]
    /\ content = [s \in Subs |-> <<>>]
    /\ session = [s \in Subs |-> EmptySession]
    /\ transaction = [s \in Subs |-> FALSE]
    /\ moderation_request = [s \in Subs |-> NoId]
    /\ analysis_result = [s \in Subs |-> NoResult]
    /\ notification_results = [s \in Subs |-> NoResults]
    /\ response = [s \in Subs |-> NoResponse]
    /\ error = [s \in Subs |-> NoError]
    /\ calls = [s \in Subs |-> NoCalls]
    /\ call = NoCall
    /\ ret = NoCall

\* The s-th submission arrives after the ones before it.
Arrives(s) == pc[s] = "idle" /\ \A t \in Subs : t < s => pc[t] /= "idle"

\* `except Exception as e: db.rollback(); raise HTTPException(status_code=500, ...)`
Raise500(s, e) ==
    /\ session' = [session EXCEPT ![s] = rollback(@)]
    /\ error' = [error EXCEPT ![s] = [status_code |-> 500, detail |-> e]]
    /\ pc' = [pc EXCEPT ![s] = "raised"]

\* moderate_text, lines 27-39: hash, construct the Request, db.add.
ModerateText(s, text, user_email) ==
    /\ Arrives(s)
    /\ content_type' = [content_type EXCEPT ![s] = "text"]
    /\ submitter' = [submitter EXCEPT ![s] = user_email]
    /\ IF constructor_raises(checks_keywords, TextRequestKwargs)
       THEN /\ Raise500(s, "TypeError")
            /\ UNCHANGED content
       ELSE /\ session' = [session EXCEPT ![s] =
                   add(@, "moderation_requests",
                       ModerationRequest("text", generate_content_hash(text),
                                         user_email, "pending"))]
            /\ content' = [content EXCEPT ![s] = text]
            /\ pc' = [pc EXCEPT ![s] = "added"]
            /\ UNCHANGED error
    /\ UNCHANGED <<environ, checks_keywords, declared, initialized, configures, store, transaction,
                   moderation_request, analysis_result, notification_results, response,
                   calls, call, ret>>

\* moderate_image, lines 29-51: validate the declared type, read, hash, construct
\* the Request, db.add.  The 400 is re-raised by `except HTTPException: raise`.
\* The handler declares the form fields image and content_id only (lines 20-24):
\* a user_email sent with the upload is not read, and the Request is constructed
\* without one (lines 46-50).
ModerateImage(s, mime, image_bytes, user_email) ==
    /\ Arrives(s)
    /\ content_type' = [content_type EXCEPT ![s] = "image"]
    /\ submitter' = [submitter EXCEPT ![s] = user_email]
    /\ declared' = [declared EXCEPT ![s] = mime]
    /\ IF mime \notin AllowedTypes
       THEN /\ error' = [error EXCEPT ![s] = [status_code |-> 400, detail |-> "Invalid file type"]]
            /\ pc' = [pc EXCEPT ![s] = "raised"]
            /\ UNCHANGED <<session, content>>
       ELSE IF constructor_raises(checks_keywords, ImageRequestKwargs)
       THEN /\ Raise500(s, "TypeError")
            /\ UNCHANGED content
       ELSE /\ session' = [session EXCEPT ![s] =
                   add(@, "moderation_requests",
                       ModerationRequest("image", generate_image_hash(image_bytes),
                                         None, "pending"))]
            /\ content' = [content EXCEPT ![s] = image_bytes]
            /\ pc' = [pc EXCEPT ![s] = "added"]
            /\ UNCHANGED error
    /\ UNCHANGED <<environ, checks_keywords, initialized, configures, store, transaction,
                   moderation_request, analysis_result, notification_results, response,
                   calls, call, ret>>

\* The transaction of the handler's Session after lines 40-41 / 52-53.  db.commit()
\* ends the transaction that wrote the pending row.  db.refresh(moderation_request)
\* then reads the row back: the SELECT begins the Session's next transaction, which
\* stays open until the next commit or rollback.  When the commit or the refresh
\* raises, the outer handler's db.rollback() ends whatever was open.
refresh_begins(outcome) == outcome = "ok"

\* Lines 39-41 (text) and 51-53 (image): db.commit() inserts the pending row, or
\* fails; db.refresh() then reloads it, or fails with the row already committed.
CommitRequest(s, outcome) ==
    /\ pc[s] = "added"
    /\ IF outcome = "commit_fails"
       THEN /\ Raise500(s, "commit failed")
            /\ content' = [content EXCEPT ![s] = <<>>]
            /\ UNCHANGED <<store, moderation_request>>
       ELSE /\ store' = commit(store, session[s])
            /\ moderation_request' =
                   [moderation_request EXCEPT ![s] = Len(store'.moderation_requests)]
            /\ IF outcome = "refresh_fails"
               THEN /\ Raise500(s, "refresh failed")
                    /\ content' = [content EXCEPT ![s] = <<>>]
               ELSE /\ session' = [session EXCEPT ![s] = EmptySession]
                    /\ pc' = [pc EXCEPT ![s] = "pending"]
                    /\ UNCHANGED <<error, content>>
    /\ transaction' = [transaction EXCEPT ![s] = refresh_begins(outcome)]
    /\ UNCHANGED <<environ, checks_keywords, submitter, declared, initialized, configures, content_type,
                   analysis_result, notification_results, response, calls, call, ret>>

\* Lines 43-44 (text) and 55-56 (image): the analyzer call.  A raise of the
\* analyzer would reach the handler's `except Exception`.
Analyze(s, backend) ==
    /\ pc[s] = "pending"
    /\ LET r == IF content_type[s] = "text"
                THEN analyze_text(initialized, environ, content[s], backend)
                ELSE analyze_image(initialized, environ, content[s], backend)
       IN  /\ initialized' = r._initialized
           /\ configures' = configures + (IF r.configured THEN 1 ELSE 0)
           /\ calls' = [calls EXCEPT ![s].analyzer = @ + 1]
           /\ transaction' = [transaction EXCEPT ![s] = @ /\ ~r.raised]
           /\ IF r.raised
              THEN /\ Raise500(s, "analyzer raised")
                   /\ UNCHANGED analysis_result
              ELSE /\ analysis_result' = [analysis_result EXCEPT ![s] = r.value]
                   /\ pc' = [pc EXCEPT ![s] = "analyzed"]
                   /\ UNCHANGED <<session, error>>
    /\ content' = [content EXCEPT ![s] = <<>>]
    /\ UNCHANGED <<environ, checks_keywords, submitter, declared, store, content_type, moderation_request,
                   notification_results, response, call, ret>>

\* The handler's return statement.
Return(s, st) ==
    /\ response' = [response EXCEPT ![s] =
           make_response(content_type[s], moderation_request[s], st, analysis_result[s])]
    /\ pc' = [pc EXCEPT ![s] = "returned"]
    /\ analysis_result' = [analysis_result EXCEPT ![s] = NoResult]
    /\ notification_results' = [notification_results EXCEPT ![s] = NoResults]
    /\ session' = [session EXCEPT ![s] = EmptySession]

\* Lines 46-59 (text) and 58-70 (image): add the Result, assign the status, commit
\* both; then either enter the notification block or return.  The commit, or the
\* rollback after its failure, ends the transaction; reads of the Request made
\* after it are not followed.
CommitResult(s, ok) ==
    /\ pc[s] = "analyzed"
    /\ LET sess == result_session(session[s], moderation_request[s], content_type[s],
                                  analysis_result[s])
       IN  IF ~ok
           THEN /\ Raise500(s, "commit failed")
                /\ analysis_result' = [analysis_result EXCEPT ![s] = NoResult]
                /\ UNCHANGED <<store, response, notification_results>>
           ELSE /\ store' = commit(store, sess)
                /\ IF should_notify(analysis_result[s])
                   THEN /\ pc' = [pc EXCEPT ![s] = "notify"]
                        /\ session' = [session EXCEPT ![s] = EmptySession]
                        /\ UNCHANGED <<response, analysis_result, notification_results>>
                   ELSE Return(s, store')
                /\ UNCHANGED error
    /\ transaction' = [transaction EXCEPT ![s] = FALSE]
    /\ UNCHANGED <<environ, checks_keywords, submitter, declared, initialized, configures, content_type, content,
                   moderation_request, calls, call, ret>>

\* Lines 63-81 (text) and 74-92 (image): the dispatcher call.  The two channels
\* share no state with other submissions, so the call is one step.
Notify(s, slack_http, email_http) ==
    /\ pc[s] = "notify"
    /\ LET args == notification_args(moderation_request[s], content_type[s],
                                     analysis_result[s])
           results == notify_inappropriate_content(environ, args, slack_http, email_http)
       IN  /\ notification_results' = [notification_results EXCEPT ![s] = results]
           /\ calls' = [calls EXCEPT ![s] =
                  [@ EXCEPT !.dispatcher = @ + 1,
                            !.slack = @ + posts(results.slack),
                            !.email = @ + posts(results.email)]]
    /\ pc' = [pc EXCEPT ![s] = "notified"]
    /\ UNCHANGED <<environ, checks_keywords, submitter, declared, initialized, configures, store, content_type,
                   content, session, transaction, moderation_request, analysis_result,
                   response, error, call, ret>>

\* Lines 83-103 (text) and 94-114 (image): add a NotificationLog per logged
\* channel, commit; a failing commit is caught by the notification handler; return.
LogNotifications(s, ok) ==
    /\ pc[s] = "notified"
    /\ LET sess == add_notification_logs(session[s], moderation_request[s],
                                         notification_results[s])
           handled == notification_error(store, moderation_request[s])
       IN  IF ok
           THEN /\ store' = commit(store, sess)
                /\ Return(s, store')
                /\ UNCHANGED error
           ELSE /\ store' = handled.store
                /\ IF handled.reraise
                   THEN /\ Raise500(s, "notification error")
                        /\ analysis_result' = [analysis_result EXCEPT ![s] = NoResult]
                        /\ notification_results' =
                               [notification_results EXCEPT ![s] = NoResults]
                        /\ UNCHANGED response
                   ELSE /\ Return(s, store')
                        /\ UNCHANGED error
    /\ transaction' = [transaction EXCEPT ![s] = FALSE]
    /\ UNCHANGED <<environ, checks_keywords, submitter, declared, initialized, configures, content_type, content,
                   moderation_request, calls, call, ret>>

Next ==
    \E s \in Subs :
        \/ \E text \in TextInputs, user_email \in UserEmails : ModerateText(s, text, user_email)
        \/ \E mime \in MimeTypes, image_bytes \in ImageInputs, user_email \in UserEmails :
               ModerateImage(s, mime, image_bytes, user_email)
        \/ \E outcome \in {"ok", "commit_fails", "refresh_fails"} : CommitRequest(s, outcome)
        \/ \E backend \in PipelineBackends : Analyze(s, backend)
        \/ \E ok \in BOOLEAN : CommitResult(s, ok)
        \/ \E slack_http \in PipelineHttp, email_http \in PipelineHttp :
               Notify(s, slack_http, email_http)
        \/ \E ok \in BOOLEAN : LogNotifications(s, ok)

Spec == Init /\ [][Next]_vars

\* ------------------------------------------------------ caller disconnects
\* The handlers are coroutines: a cancellation (the caller went away) is delivered
\* only where the handler awaits.  moderate_image awaits image.read() (line 40);
\* both await notify_inappropriate_content (74 / 85), inside which each configured
\* channel awaits its post.  analyze_text / analyze_image are called, not awaited.
\* An await point that also covers the analyzer call.
AwaitPoints_with_analyze(type) ==
    (IF type = "image" THEN {"read"} ELSE {}) \cup {"slack", "email", "analyze"}

AwaitPoints(type) == (IF type = "image" THEN {"read"} ELSE {}) \cup {"slack", "email"}

\* CancelledError is not an Exception: neither `except Exception` clause catches
\* it, so the handler ends where it stood, with what it had committed.
Cancel(s, type, at) ==
    /\ at \in AwaitPoints(type)
    /\ CASE at = "read" ->
               /\ Arrives(s)
               /\ content_type' = [content_type EXCEPT ![s] = type]
               /\ UNCHANGED calls
          [] at = "analyze" ->
               /\ pc[s] = "pending" /\ content_type[s] = type
               /\ UNCHANGED <<content_type, calls>>
          [] at = "slack" ->
               /\ pc[s] = "notify" /\ content_type[s] = type
               /\ "slack" \in ConfiguredChannels(environ)
               /\ calls' = [calls EXCEPT ![s] = [@ EXCEPT !.dispatcher = @ + 1, !.slack = @ + 1]]
               /\ UNCHANGED content_type
          [] at = "email" ->
               /\ pc[s] = "notify" /\ content_type[s] = type
               /\ "email" \in ConfiguredChannels(environ)
               /\ calls' = [calls EXCEPT ![s] =
                      [@ EXCEPT !.dispatcher = @ + 1,
                                !.slack = @ + (IF "slack" \in ConfiguredChannels(environ)
                                               THEN 1 ELSE 0),
                                !.email = @ + 1]]
               /\ UNCHANGED content_type
    /\ pc' = [pc EXCEPT ![s] = "cancelled"]
    /\ declared' = [declared EXCEPT ![s] = IF at = "read" THEN "image/png" ELSE @]
    /\ content' = [content EXCEPT ![s] = <<>>]
    /\ analysis_result' = [analysis_result EXCEPT ![s] = NoResult]
    /\ session' = [session EXCEPT ![s] = EmptySession]
    /\ transaction' = [transaction EXCEPT ![s] = FALSE]
    /\ UNCHANGED <<environ, checks_keywords, submitter, initialized, configures, store,
                   moderation_request, notification_results, response, error, call, ret>>

NextDisconnect ==
    \/ Next
    \/ \E s \in Subs, type \in {"text", "image"}, at \in {"read", "analyze", "slack", "email"} :
           Cancel(s, type, at)

SpecDisconnect == Init /\ [][NextDisconnect]_vars

\* ------------------------------------------------- direct calls: analyzer
\* analyze_text and analyze_image called directly, over every environment of the
\* backend key, either value of _initialized, and every backend behaviour.
AnalyzerEnvs ==
    { [GOOGLE_API_KEY |-> g, SLACK_WEBHOOK_URL |-> None, BREVO_API_KEY |-> None,
       EMAIL_FROM |-> None, EMAIL_TO |-> None] : g \in {None, "", "key"} }

Probabilities == {"NEGLIGIBLE", "LOW", "MEDIUM", "HIGH", "HARM_PROBABILITY_UNSPECIFIED"}

Categories == {"HARM_CATEGORY_HATE_SPEECH", "HARM_CATEGORY_CIVIC_INTEGRITY"}

RECURSIVE RatingLists(_)
RatingLists(n) ==
    IF n = 0 THEN {<<>>}
    ELSE LET shorter == RatingLists(n - 1)
         IN  shorter \cup
             { Append(l, [category |-> c, probability |-> p]) :
                 l \in {x \in shorter : Len(x) = n - 1},
                 c \in Categories, p \in Probabilities }

Responses ==
    { [candidates |-> c, text |-> t] :
        c \in {<<>>} \cup { <<l>> : l \in RatingLists(MaxRatings) },
        t \in {<<>>, <<"ok">>, <<"HARMFUL">>, <<"flagged_categories">>} }

\* A fault before the response is read makes the response irrelevant.
Backends(faults) ==
    { [fault |-> f, response |-> NoRatings] : f \in faults \ {"none", "delete_file"} }
    \cup { [fault |-> f, response |-> r] :
             f \in faults \cap {"none", "delete_file"}, r \in Responses }

InitDirect ==
    /\ checks_keywords = FALSE
    /\ submitter = [s \in Subs |-> None]
    /\ declared = [s \in Subs |-> None]
    /\ configures = 0
    /\ store = EmptyStore
    /\ pc = [s \in Subs |-> "idle"]
    /\ content_type = [s \in Subs |-> None]
    /\ content = [s \in Subs |-> <<>>]
    /\ session = [s \in Subs |-> EmptySession]
    /\ transaction = [s \in Subs |-> FALSE]
    /\ moderation_request = [s \in Subs |-> NoId]
    /\ analysis_result = [s \in Subs |-> NoResult]
    /\ notification_results = [s \in Subs |-> NoResults]
    /\ response = [s \in Subs |-> NoResponse]
    /\ error = [s \in Subs |-> NoError]
    /\ calls = [s \in Subs |-> NoCalls]
    /\ call = NoCall
    /\ ret = NoCall

InitAnalyzer ==
    /\ environ \in AnalyzerEnvs
    /\ initialized \in BOOLEAN
    /\ InitDirect

pipeline_vars == <<checks_keywords, submitter, declared, store, pc, content_type, content, session,
                   transaction, moderation_request, analysis_result, notification_results,
                   response, error, calls>>

\* The caller drops the returned value; the next direct call may follow.
ReturnDirect ==
    /\ call /= NoCall
    /\ call' = NoCall
    /\ ret' = NoCall
    /\ UNCHANGED <<environ, initialized, configures, pipeline_vars>>

CallAnalyzeText(text, backend) ==
    /\ call = NoCall
    /\ LET r == analyze_text(initialized, environ, text, backend)
       IN  /\ call' = [function |-> "analyze_text", content |-> text, backend |-> backend,
                       _initialized |-> initialized]
           /\ ret' = r
           /\ initialized' = r._initialized
           /\ configures' = configures + (IF r.configured THEN 1 ELSE 0)
    /\ UNCHANGED <<environ, pipeline_vars>>

CallAnalyzeImage(image_bytes, backend) ==
    /\ call = NoCall
    /\ LET r == analyze_image(initialized, environ, image_bytes, backend)
       IN  /\ call' = [function |-> "analyze_image", content |-> image_bytes,
                       backend |-> backend, _initialized |-> initialized]
           /\ ret' = r
           /\ initialized' = r._initialized
           /\ configures' = configures + (IF r.configured THEN 1 ELSE 0)
    /\ UNCHANGED <<environ, pipeline_vars>>

NextAnalyzer ==
    \/ \E text \in TextInputs, backend \in Backends(TextFaults) :
           CallAnalyzeText(text, backend)
    \/ \E image_bytes \in ImageInputs, backend \in Backends(ImageFaults) :
           CallAnalyzeImage(image_bytes, backend)
    \/ ReturnDirect

SpecAnalyzer == InitAnalyzer /\ [][NextAnalyzer]_vars

\* ------------------------------------------------------ analytics endpoint
\* Whether the class ModerationRequest has an attribute: the columns and
\* relationships it declares, and under a Base that accepts user_email that
\* attribute too.
has_attribute(keyword_check, name) == ~keyword_check \/ name \in RequestColumns

RECURSIVE sum(_, _)
sum(rows, ids) ==
    IF ids = {} THEN 0
    ELSE LET j == CHOOSE x \in ids : TRUE
         IN  rows[j].confidence + sum(rows, ids \ {j})

NoSummary == [user_email |-> None]

\* Lines 42-44: the Requests whose user_email column equals the parameter; a NULL
\* column equals nothing.
user_requests(requests, user) ==
    { i \in 1..Len(requests) :
        requests[i].user_email /= None /\ requests[i].user_email = user }

\* get_analytics_summary(user): the HTTP status and, for 200, the AnalyticsSummary.
\* The average sum(confidence_scores) / len(confidence_scores) is kept as the
\* pair of its numerator (in hundredths) and denominator.
get_analytics_summary(keyword_check, st, user, db_fault) ==
    LET requests == st.moderation_requests
        results == st.moderation_results
        mine == user_requests(requests, user)
        \* results_map: the last Result of a request_id wins
        results_map == { j \in 1..Len(results) :
                           /\ results[j].request_id \in mine
                           /\ \A k \in 1..Len(results) :
                                  results[k].request_id = results[j].request_id => k <= j }
        confidence_scores == { j \in results_map : results[j].confidence /= -1 }
        dates == { requests[i].created_at : i \in { k \in mine : requests[k].created_at /= -1 } }
    IN  IF ~has_attribute(keyword_check, "user_email") \/ db_fault
        THEN [status_code |-> 500, body |-> NoSummary]
        ELSE IF mine = {}
        THEN [status_code |-> 404, body |-> NoSummary]
        ELSE [status_code |-> 200,
              body |->
                [user_email |-> user,
                 total_requests |-> Cardinality(mine),
                 content_type_breakdown |->
                     [t \in {"text", "image"} |->
                         Cardinality({ i \in mine : requests[i].content_type = t })],
                 classification_breakdown |->
                     [c \in {"appropriate", "inappropriate"} |->
                         Cardinality({ j \in results_map : results[j].classification = c })],
                 status_breakdown |->
                     [x \in {"pending", "completed", "failed"} |->
                         Cardinality({ i \in mine : requests[i].status = x })],
                 average_confidence |->
                     IF confidence_scores = {} THEN [sum |-> -1, len |-> 0]
                     ELSE [sum |-> sum(results, confidence_scores),
                           len |-> Cardinality(confidence_scores)],
                 first_request_date |->
                     IF dates = {} THEN -1 ELSE CHOOSE d \in dates : \A e \in dates : d <= e,
                 last_request_date |->
                     IF dates = {} THEN -1 ELSE CHOOSE d \in dates : \A e \in dates : d >= e]]

\* The users the summary is asked for: one who submits, one who never does.
AnalyticsUsers == {"user@example", "nobody@example"}

\* The handler awaits nothing: between its query and its return no submission
\* handler runs.  A store that cannot be queried makes the query raise.
CallAnalytics(user, db_fault) ==
    /\ call = NoCall
    /\ call' = [function |-> "get_analytics_summary", user |-> user, db_fault |-> db_fault]
    /\ ret' = get_analytics_summary(checks_keywords, store, user, db_fault)
    /\ UNCHANGED <<environ, initialized, configures, pipeline_vars>>

NextAnalytics ==
    \/ call = NoCall /\ Next
    \/ \E user \in AnalyticsUsers, db_fault \in BOOLEAN : CallAnalytics(user, db_fault)
    \/ ReturnDirect

SpecAnalytics == Init /\ [][NextAnalytics]_vars


\* ----------------------------------------------- direct calls: dispatcher
\* notify_inappropriate_content called directly, over every configuration of the
\* two channels and every outcome of the two posts.
NotifyEnvs ==
    { [GOOGLE_API_KEY |-> "key", SLACK_WEBHOOK_URL |-> s, BREVO_API_KEY |-> b,
       EMAIL_FROM |-> f, EMAIL_TO |-> t] :
        s \in {None, "", "https://hooks"}, b \in {None, "", "key"},
        f \in {None, "from@example"}, t \in {None, "to@example"} }

NotifyArgs ==
    { [request_id |-> 1, content_type |-> "text", classification |-> c, confidence |-> k,
       reasoning |-> <<>>, flagged_categories |-> <<>>] :
        c \in {"inappropriate", None}, k \in {90, -1} }

InitNotify ==
    /\ environ \in NotifyEnvs
    /\ initialized = FALSE
    /\ InitDirect

CallNotify(args, slack_http, email_http) ==
    /\ call = NoCall
    /\ call' = [function |-> "notify_inappropriate_content", args |-> args,
                slack_http |-> slack_http, email_http |-> email_http]
    /\ ret' = notify_inappropriate_content(environ, args, slack_http, email_http)
    /\ UNCHANGED <<environ, initialized, configures, pipeline_vars>>

NextNotify ==
    \/ \E args \in NotifyArgs, slack_http \in HttpOutcomes, email_http \in HttpOutcomes :
           CallNotify(args, slack_http, email_http)
    \/ ReturnDirect

SpecNotify == InitNotify /\ [][NextNotify]_vars

\* --------------------------------------------------- direct calls: hashing
\* The hashing prefix of the two handlers called directly: the hash of the
\* submitted content and the ModerationRequest constructed with it.
CodePoints == {104, 105, 233, 1026}

ByteValues == {104, 195, 169}

RECURSIVE SeqsUpTo(_, _)
SeqsUpTo(S, n) ==
    IF n = 0 THEN {<<>>}
    ELSE LET shorter == SeqsUpTo(S, n - 1)
         IN  shorter \cup { Append(q, x) : q \in {y \in shorter : Len(y) = n - 1}, x \in S }

InitHash ==
    /\ environ \in { e \in AnalyzerEnvs : e.GOOGLE_API_KEY = "key" }
    /\ initialized = FALSE
    /\ InitDirect

\* moderate_text lines 28-37 on request.text = text
CallHashText(text) ==
    /\ call = NoCall
    /\ call' = [function |-> "moderate_text", content |-> text]
    /\ ret' = ModerationRequest("text", generate_content_hash(text), None, "pending")
    /\ UNCHANGED <<environ, initialized, configures, pipeline_vars>>

\* moderate_image lines 42-50 on the bytes read from the upload
CallHashImage(image_bytes) ==
    /\ call = NoCall
    /\ call' = [function |-> "moderate_image", content |-> image_bytes]
    /\ ret' = ModerationRequest("image", generate_image_hash(image_bytes), None, "pending")
    /\ UNCHANGED <<environ, initialized, configures, pipeline_vars>>

NextHash ==
    \/ \E text \in SeqsUpTo(CodePoints, MaxLen) : CallHashText(text)
    \/ \E image_bytes \in SeqsUpTo(ByteValues, MaxLen) : CallHashImage(image_bytes)
    \/ ReturnDirect

SpecHash == InitHash /\ [][NextHash]_vars

\* ------------------------------------------------ direct calls: list query
\* get_analysis_summaries called directly on stores of up to MaxRows Requests.
\* A stored Request is a text that is pending or completed, or an image that is
\* pending, completed or failed; created_at never decreases with the id, and two
\* Requests inserted within one tick of the server clock carry the same value.
RowKinds ==
    { <<"text", "pending">>, <<"text", "completed">>,
      <<"image", "pending">>, <<"image", "completed">>, <<"image", "failed">> }

Timestamps == 1..2

StoredRequest(id, kind, created_at) ==
    [ModerationRequest(kind[1],
                       IF kind[1] = "text" THEN generate_content_hash(<<104, 105>>)
                       ELSE generate_image_hash(<<137, 80>>),
                       None, kind[2])
        EXCEPT !.id = id, !.created_at = created_at]

\* The Result of a terminal Request: an "error" for a failed one.
StoredResult(id, request) ==
    [ModerationResult(request.id,
                      [classification |-> IF request.status = "failed"
                                          THEN "error" ELSE "appropriate",
                       confidence |-> IF request.status = "failed" THEN 0 ELSE 85,
                       reasoning |-> <<>>, llm_response |-> NoText])
        EXCEPT !.id = id]

StoreOf(kinds, times) ==
    LET requests == [i \in 1..Len(kinds) |-> StoredRequest(i, kinds[i], times[i])]
        finished == SelectSeq(requests, LAMBDA r : r.status \in {"completed", "failed"})
    IN  [moderation_requests |-> requests,
         moderation_results |-> [j \in 1..Len(finished) |-> StoredResult(j, finished[j])],
         notification_logs |-> <<>>]

Stores ==
    UNION { { StoreOf(kinds, times) :
                kinds \in [1..n -> RowKinds],
                times \in { t \in [1..n -> Timestamps] :
                              \A i \in 1..(n - 1) : t[i] <= t[i + 1] } } :
            n \in 0..MaxRows }

Min(a, b) == IF a <= b THEN a ELSE b

\* Lines 75-78: a filter is applied when its parameter is truthy.
filter(requests, type, status) ==
    { i \in 1..Len(requests) :
        /\ Truthy(type) => requests[i].content_type = type
        /\ Truthy(status) => requests[i].status = status }

\* Every arrangement of a set of ids in a sequence.
RECURSIVE Orderings(_)
Orderings(ids) ==
    IF ids = {} THEN {<<>>}
    ELSE UNION { { <<x>> \o q : q \in Orderings(ids \ {x}) } : x \in ids }

\* ORDER BY created_at DESC: the database returns the rows in any order in which
\* created_at never increases; rows of equal created_at come in an order it picks.
order_by_desc(requests, ids) ==
    { q \in Orderings(ids) :
        \A k \in 1..(Len(q) - 1) :
            requests[q[k]].created_at >= requests[q[k + 1]].created_at }

\* A page that always starts at the first row.
offset_limit_from_start(q, skip, limit) == SubSeq(q, 1, Min(Len(q), limit))

\* .offset(skip).limit(limit)
offset_limit(q, skip, limit) == SubSeq(q, skip + 1, Min(Len(q), skip + limit))

NoResultDetail == [classification |-> None, confidence |-> -1, reasoning |-> <<>>]

\* Lines 89-110: the summary of one Request with its first Result, if any.
summary(st, id) ==
    LET request == st.moderation_requests[id]
        results == st.moderation_results
        found == { j \in 1..Len(results) : results[j].request_id = request.id }
        first == CHOOSE j \in found : \A k \in found : j <= k
    IN  [request_id |-> request.id, content_type |-> request.content_type,
         content_hash |-> request.content_hash, status |-> request.status,
         created_at |-> request.created_at,
         result |-> IF found = {} THEN NoResultDetail
                    ELSE [classification |-> results[first].classification,
                          confidence |-> results[first].confidence,
                          reasoning |-> results[first].reasoning]]

\* get_analysis_summaries: total is the count of the filtered query; the page is
\* cut from `ordered`, the filtered rows in the order the database returned them.
get_analysis_summaries(st, skip, limit, type, status, ordered) ==
    LET total == Cardinality(filter(st.moderation_requests, type, status))
        moderation_requests == offset_limit(ordered, skip, limit)
    IN  [total |-> total,
         summaries |-> [k \in 1..Len(moderation_requests) |->
                           summary(st, moderation_requests[k])]]

\* skip: int >= 0; limit: int in 1..100; the optional filters absent, empty, a
\* stored value or a value no Request has.
Skips == 0..(MaxRows + 1)

Limits == {1, 2, 100}

ContentTypeFilters == {None, "", "text", "image", "video"}

StatusFilters == {None, "pending", "completed", "failed"}

InitList ==
    /\ environ \in { e \in AnalyzerEnvs : e.GOOGLE_API_KEY = "key" }
    /\ initialized = FALSE
    /\ checks_keywords = FALSE
    /\ submitter = [s \in Subs |-> None]
    /\ declared = [s \in Subs |-> None]
    /\ configures = 0
    /\ store \in Stores
    /\ pc = [s \in Subs |-> "idle"]
    /\ content_type = [s \in Subs |-> None]
    /\ content = [s \in Subs |-> <<>>]
    /\ session = [s \in Subs |-> EmptySession]
    /\ transaction = [s \in Subs |-> FALSE]
    /\ moderation_request = [s \in Subs |-> NoId]
    /\ analysis_result = [s \in Subs |-> NoResult]
    /\ notification_results = [s \in Subs |-> NoResults]
    /\ response = [s \in Subs |-> NoResponse]
    /\ error = [s \in Subs |-> NoError]
    /\ calls = [s \in Subs |-> NoCalls]
    /\ call = NoCall
    /\ ret = NoCall

CallList(skip, limit, type, status, ordered) ==
    /\ call = NoCall
    /\ call' = [function |-> "get_analysis_summaries", skip |-> skip, limit |-> limit,
                content_type |-> type, status |-> status]
    /\ ret' = get_analysis_summaries(store, skip, limit, type, status, ordered)
    /\ UNCHANGED <<environ, initialized, configures, pipeline_vars>>

NextList ==
    \/ /\ call = NoCall
       /\ \E skip \in Skips, limit \in Limits, type \in ContentTypeFilters,
             status \in StatusFilters :
              \E ordered \in order_by_desc(store.moderation_requests,
                                           filter(store.moderation_requests, type, status)) :
                  CallList(skip, limit, type, status, ordered)
    \/ ReturnDirect

SpecList == InitList /\ [][NextList]_vars

\* ------------------------------------------------ direct calls: page by page
\* A client reads the list page by page on an unchanged store: one call of
\* get_analysis_summaries with skip = 0, limit, 2 * limit, ... until skip reaches
\* the total the endpoint reports.  Every call is a query of its own, so the
\* database orders the rows of equal created_at anew each time.
StartPaging(limit, type, status) ==
    /\ call = NoCall
    /\ call' = [function |-> "pages of get_analysis_summaries", skip |-> 0,
                limit |-> limit, content_type |-> type, status |-> status,
                done |-> FALSE]
    /\ ret' = [request_ids |-> <<>>]
    /\ UNCHANGED <<environ, initialized, configures, pipeline_vars>>

FetchPage(ordered) ==
    /\ call /= NoCall /\ ~call.done
    /\ LET page == get_analysis_summaries(store, call.skip, call.limit,
                                          call.content_type, call.status, ordered)
       IN  /\ ret' = [request_ids |->
                         ret.request_ids
                             \o [k \in 1..Len(page.summaries) |->
                                    page.summaries[k].request_id]]
           /\ call' = [call EXCEPT !.skip = @ + call.limit,
                                   !.done = call.skip + call.limit >= page.total]
    /\ UNCHANGED <<environ, initialized, configures, pipeline_vars>>

NextPaging ==
    \/ /\ call = NoCall
       /\ \E limit \in Limits, type \in ContentTypeFilters, status \in StatusFilters :
              StartPaging(limit, type, status)
    \/ /\ call /= NoCall
       /\ \E ordered \in order_by_desc(store.moderation_requests,
                                        filter(store.moderation_requests,
                                               call.content_type, call.status)) :
              FetchPage(ordered)
    \/ /\ call /= NoCall /\ call.done
       /\ ReturnDirect

SpecPaging == InitList /\ [][NextPaging]_vars

\* ---------------------------------------- direct calls: notification block
\* The guard of the notification block and the statements up to the dispatcher
\* call (text lines 62-81, image lines 73-92), on the result of an analyzer call
\* for any backend response, and on an "inappropriate" result of another payload:
\* none, text that is not JSON, a JSON document without flagged_categories.
notification_block(request_id, type, result) ==
    IF should_notify(result)
    THEN [dispatched |-> TRUE, args |-> notification_args(request_id, type, result)]
    ELSE [dispatched |-> FALSE, args |-> [request_id |-> NoId]]

OtherPayloads == {"none", "not JSON", "no flagged_categories"}

other_payload(kind) ==
    CASE kind = "none" -> NoText
      [] kind = "not JSON" -> [json |-> FALSE, value |-> <<"not json">>]
      [] kind = "no flagged_categories" -> json_dumps([model |-> "gemini-flash-latest"])

InitBlock ==
    /\ environ \in { e \in AnalyzerEnvs : e.GOOGLE_API_KEY = "key" }
    /\ initialized = TRUE
    /\ InitDirect

CallBlockAfterAnalysis(type, backend) ==
    /\ call = NoCall
    /\ LET r == IF type = "text"
                THEN analyze_text(initialized, environ, <<104, 105>>, backend)
                ELSE analyze_image(initialized, environ, <<137, 80>>, backend)
       IN  /\ call' = [function |-> "notification_block", payload |-> "analyzer",
                       content_type |-> type, backend |-> backend,
                       analysis_result |-> r.value]
           /\ ret' = notification_block(1, type, r.value)
    /\ UNCHANGED <<environ, initialized, configures, pipeline_vars>>

CallBlockOnPayload(type, kind) ==
    /\ call = NoCall
    /\ LET result == [classification |-> "inappropriate", confidence |-> 90,
                      reasoning |-> <<>>, llm_response |-> other_payload(kind)]
       IN  /\ call' = [function |-> "notification_block", payload |-> kind,
                       content_type |-> type,
                       backend |-> [fault |-> "none", response |-> NoRatings],
                       analysis_result |-> result]
           /\ ret' = notification_block(1, type, result)
    /\ UNCHANGED <<environ, initialized, configures, pipeline_vars>>

NextBlock ==
    \/ /\ call = NoCall
       /\ \E backend \in Backends(TextFaults) : CallBlockAfterAnalysis("text", backend)
    \/ /\ call = NoCall
       /\ \E backend \in Backends(ImageFaults) : CallBlockAfterAnalysis("image", backend)
    \/ \E type \in {"text", "image"}, kind \in OtherPayloads :
           CallBlockOnPayload(type, kind)
    \/ ReturnDirect

SpecBlock == InitBlock /\ [][NextBlock]_vars

\* ================================================================== claims
Requests == store.moderation_requests

Results == store.moderation_results

Logs == store.notification_logs

RequestIds == 1..Len(Requests)

Terminal == {"completed", "failed"}

ResultsOf(i) == { j \in 1..Len(Results) : Results[j].request_id = i }

LogsOf(i) == { j \in 1..Len(Logs) : Logs[j].request_id = i }

Finished(s) == pc[s] \in {"returned", "raised"}

\* C1: the status of a Request changes at most once, from "pending" to
\* "completed" or "failed": in every step, every Request row is still there, and
\* if its status differs afterwards it was "pending" and is now terminal; a
\* terminal status is therefore never changed by any later step of any submission.
C1_StatusChangesOnce ==
    [][ \A i \in RequestIds :
            /\ i <= Len(store'.moderation_requests)
            /\ store'.moderation_requests[i].status /= Requests[i].status
                   => /\ Requests[i].status = "pending"
                      /\ store'.moderation_requests[i].status \in Terminal ]_vars

\* C1 witness: one submission has returned after its notification handling with
\* its Request terminal, and another has gone through the error handler's
\* rollback after its Request row was committed.
C1_Witness ==
    \E s, t \in Subs :
        /\ s /= t
        /\ pc[s] = "returned" /\ calls[s].dispatcher = 1
        /\ Requests[moderation_request[s]].status \in Terminal
        /\ pc[t] = "raised" /\ error[t].status_code = 500
        /\ moderation_request[t] /= NoId

\* C2: every submission that inserted a Request row leaves it terminal: once the
\* submit call has finished, by returning or by raising, its Request is not
\* "pending".
C2_NoPendingAfterSubmit ==
    \A s \in Subs :
        (Finished(s) /\ moderation_request[s] /= NoId)
            => Requests[moderation_request[s]].status \in Terminal

\* C3: a submission that failed with the generic processing error left nothing
\* behind: the store holds no Request row and no Result row of that submission.
C3_FailedSubmissionLeavesNoRows ==
    \A s \in Subs :
        (pc[s] = "raised" /\ error[s].status_code = 500)
            => /\ moderation_request[s] = NoId
               /\ \A j \in 1..Len(Results) : Results[j].request_id /= moderation_request[s]

\* C4: in every committed state of the store a Request is "completed" or "failed"
\* exactly when a Result row of it exists; a "pending" Request has none.
C4_TerminalIffResult ==
    \A i \in RequestIds :
        /\ Requests[i].status \in Terminal <=> ResultsOf(i) /= {}
        /\ Requests[i].status = "pending" => ResultsOf(i) = {}

\* C4 witness: the store holds a terminal Request with its Result next to a
\* pending Request whose analysis has not been committed.
C4_Witness ==
    \E i, k \in RequestIds :
        /\ Requests[i].status \in Terminal /\ ResultsOf(i) /= {}
        /\ Requests[k].status = "pending" /\ ResultsOf(k) = {}

\* C5: a submission, text or image, whose Analyzer result is "error" and that has
\* returned has its Result persisted, its Request "failed", no notification
\* dispatched or logged, and a response with status "failed".
C5_ErrorMeansFailed ==
    \A s \in Subs :
        (pc[s] = "returned"
         /\ \E j \in ResultsOf(moderation_request[s]) : Results[j].classification = "error")
            => /\ Requests[moderation_request[s]].status = "failed"
               /\ response[s].status = "failed"
               /\ calls[s].dispatcher = 0
               /\ LogsOf(moderation_request[s]) = {}

\* The submissions that inserted Request i.
SubmissionsOf(i) == { s \in Subs : moderation_request[s] = i }

\* C7: a Request whose Result is not classified "inappropriate" ("appropriate",
\* "error" or anything else) has no NotificationLog row, and the dispatcher was
\* never invoked for it.
C7_NoNotificationUnlessInappropriate ==
    \A j \in 1..Len(Results) :
        Results[j].classification /= "inappropriate"
            => /\ LogsOf(Results[j].request_id) = {}
               /\ \A s \in SubmissionsOf(Results[j].request_id) : calls[s].dispatcher = 0

\* C7 witness: with a channel configured, one submission has returned with an
\* "appropriate" Result and another with an "error" Result.
C7_Witness ==
    /\ ConfiguredChannels(environ) /= {}
    /\ \E s, t \in Subs :
        /\ pc[s] = "returned" /\ pc[t] = "returned"
        /\ \E j \in ResultsOf(moderation_request[s]) : Results[j].classification = "appropriate"
        /\ \E j \in ResultsOf(moderation_request[t]) : Results[j].classification = "error"

\* C8: every persisted NotificationLog row names a channel that is configured and
\* has a status other than "skipped"; a channel without configuration has
\* reported "skipped" once the dispatcher has returned.
C8_LoggedChannelsAreConfigured ==
    /\ \A j \in 1..Len(Logs) :
        /\ Logs[j].channel \in ConfiguredChannels(environ)
        /\ Logs[j].status /= "skipped"
    /\ \A s \in Subs :
        pc[s] = "notified"
            => /\ "slack" \notin ConfiguredChannels(environ)
                   => notification_results[s].slack.status = "skipped"
               /\ "email" \notin ConfiguredChannels(environ)
                   => notification_results[s].email.status = "skipped"

\* C8 witness: exactly one channel is configured, and an "inappropriate" Request
\* has returned with a row for that channel and none for the other.
C8_Witness ==
    /\ Cardinality(ConfiguredChannels(environ)) = 1
    /\ \E s \in Subs :
        /\ pc[s] = "returned" /\ calls[s].dispatcher = 1
        /\ { Logs[j].channel : j \in LogsOf(moderation_request[s]) }
               = ConfiguredChannels(environ)

\* C9: no step of the notification block (the dispatcher call, the logging of its
\* results, a failing commit of the log rows) changes the status of the Request
\* or raises: the handler stays in the block or returns the normal response, with
\* the id of its Request and the status committed before dispatch.
C9_NotificationFailureIsContained ==
    [][ \A s \in Subs :
            pc[s] \in {"notify", "notified"}
                => /\ store'.moderation_requests[moderation_request[s]].status
                          = Requests[moderation_request[s]].status
                   /\ pc'[s] \in {"notify", "notified", "returned"}
                   /\ error'[s] = NoError
                   /\ pc'[s] = "returned"
                          => /\ response'[s].request_id = moderation_request[s]
                             /\ response'[s].status = Requests[moderation_request[s]].status
                             /\ response'[s].message = "inappropriate" ]_vars

\* C9 witness: with both channels configured, one submission has returned although
\* the commit of its log rows failed (it has no row), and another has returned with
\* a row for a channel whose send failed.
C9_Witness ==
    /\ ConfiguredChannels(environ) = {"slack", "email"}
    /\ \E s, t \in Subs :
        /\ pc[s] = "returned" /\ calls[s].dispatcher = 1
        /\ LogsOf(moderation_request[s]) = {}
        /\ response[s].status = "completed"
        /\ pc[t] = "returned" /\ calls[t].dispatcher = 1
        /\ \E j \in LogsOf(moderation_request[t]) : Logs[j].status = "failed"

\* The faults of a direct analyzer call that keep it from classifying: the key is
\* missing at initialization, the image cannot be decoded, or a backend call on
\* the way to the response fails.  (A failing delete_file is cleanup after the
\* response was read; lines 291-295 ignore it.)
Faulted ==
    \/ ~call._initialized /\ ~Truthy(environ.GOOGLE_API_KEY)
    \/ call.function = "analyze_image" /\ ~PIL_can_open(call.content)
    \/ call.backend.fault \in {"upload_file", "generate_content", "response_text"}

\* C6: analyze_text and analyze_image never raise; what they return always has
\* the four result fields, and after any fault it is classification "error",
\* confidence 0.0 and a reasoning that carries the diagnostic.
C6_AnalyzerNeverRaises ==
    call.function \in {"analyze_text", "analyze_image"}
        => /\ ~ret.raised
           /\ DOMAIN ret.value = ResultKeys
           /\ Faulted => /\ ret.value.classification = "error"
                         /\ ret.value.confidence = 0
                         /\ ret.value.reasoning[5] \notin {"", None}

\* C6 witness: analyze_image was called with the key set, on bytes that cannot be
\* decoded, and returned "error".
C6_Witness ==
    /\ call.function = "analyze_image"
    /\ Truthy(environ.GOOGLE_API_KEY)
    /\ ~PIL_can_open(call.content)
    /\ ret.value.classification = "error"

EmailConfigured ==
    Truthy(environ.BREVO_API_KEY) /\ Truthy(environ.EMAIL_FROM) /\ Truthy(environ.EMAIL_TO)

\* C10: notify_inappropriate_content returns an outcome for both channels, and
\* whatever Slack did, the e-mail channel was invoked and its outcome is decided by
\* its own configuration, the message arguments and its own response alone:
\* "skipped" iff its configuration is incomplete, "sent" iff it is complete, the
\* message could be built and the API answered 200 or 201, "failed" otherwise.
C10_ChannelsAreIsolated ==
    call.function = "notify_inappropriate_content"
        => /\ ret.slack.status \in {"sent", "failed", "skipped"}
           /\ ret.email.status \in {"sent", "failed", "skipped"}
           /\ ret.email.status = "skipped" <=> ~EmailConfigured
           /\ ret.email.status = "sent"
                  <=> /\ EmailConfigured
                      /\ call.args.classification /= None /\ call.args.confidence /= -1
                      /\ ~call.email_http.raised
                      /\ call.email_http.status_code \in {200, 201}

\* C10 witness: the Slack send failed with a transport exception and the e-mail of
\* the same call was sent.
C10_Witness ==
    /\ call.function = "notify_inappropriate_content"
    /\ Truthy(environ.SLACK_WEBHOOK_URL) /\ call.slack_http.raised
    /\ ret.slack.status = "failed"
    /\ ret.email.status = "sent"

\* The rows of notification_logs a Request has for one channel.
LogsOfChannel(i, channel) == { j \in LogsOf(i) : Logs[j].channel = channel }

\* C11: the notification log is append-only with at most one row per channel per
\* Request: in every state each Request has at most one "slack" row and at most
\* one "email" row, and every step keeps every row that was there, unchanged and
\* at its place.
C11_LogIsAppendOnly ==
    /\ [](\A i \in RequestIds :
            /\ Cardinality(LogsOfChannel(i, "slack")) <= 1
            /\ Cardinality(LogsOfChannel(i, "email")) <= 1)
    /\ [][ /\ Len(store'.notification_logs) >= Len(Logs)
           /\ \A j \in 1..Len(Logs) : store'.notification_logs[j] = Logs[j] ]_vars

\* C11 witness: two Requests have each a "slack" row and an "email" row: the
\* second pair was appended behind the first.
C11_Witness ==
    \E i, k \in RequestIds :
        /\ i /= k
        /\ \A c \in {"slack", "email"} :
               LogsOfChannel(i, c) /= {} /\ LogsOfChannel(k, c) /= {}

\* The text submissions whose committed Result is classified "inappropriate".
InappropriateText(s) ==
    /\ content_type[s] = "text"
    /\ moderation_request[s] /= NoId
    /\ \E j \in ResultsOf(moderation_request[s]) : Results[j].classification = "inappropriate"

C13_SubmissionsAreIndependent ==
    \A s, t \in Subs :
        /\ (s /= t /\ moderation_request[s] /= NoId /\ moderation_request[t] /= NoId)
               => /\ moderation_request[s] /= moderation_request[t]
                  /\ (pc[s] = "pending" /\ pc[t] = "pending"
                      /\ content_type[s] = content_type[t] /\ content[s] = content[t])
                         => Requests[moderation_request[s]].content_hash
                                = Requests[moderation_request[t]].content_hash
        /\ pc[s] = "returned"
               => /\ calls[s].analyzer = 1
                  /\ Cardinality(ResultsOf(moderation_request[s])) = 1

\* C13 witness: two submissions of the same content have both returned: two
\* Requests with different ids and the same content_hash, each with its Result.
C13_Witness ==
    \E s, t \in Subs :
        /\ s /= t /\ pc[s] = "returned" /\ pc[t] = "returned"
        /\ content_type[s] = content_type[t]
        /\ moderation_request[s] /= moderation_request[t]
        /\ Requests[moderation_request[s]].content_hash
               = Requests[moderation_request[t]].content_hash
        /\ ResultsOf(moderation_request[s]) /= {} /\ ResultsOf(moderation_request[t]) /= {}
        /\ Len(Requests) = 2 /\ Len(Results) = 2

\* C16: the dispatcher is invoked only when the Result row and the terminal status
\* of the Request are already committed, and no step taken in or after the
\* notification block (the dispatcher call, a failing commit of the log rows, the
\* handling of that failure) removes or changes a committed Result of it.
C16_DispatchAfterCommit ==
    [][ \A s \in Subs :
            /\ calls'[s].dispatcher > calls[s].dispatcher
                   => /\ moderation_request[s] /= NoId
                      /\ ResultsOf(moderation_request[s]) /= {}
                      /\ Requests[moderation_request[s]].status \in Terminal
            /\ (pc[s] \in {"notify", "notified"} \/ calls[s].dispatcher > 0)
                   => \A j \in ResultsOf(moderation_request[s]) :
                          /\ j <= Len(store'.moderation_results)
                          /\ store'.moderation_results[j] = Results[j] ]_vars

\* C16 witness: with a channel configured, a submission has returned after the
\* commit of its log rows failed: its "inappropriate" Result is still there,
\* while another submission has gone through the outer handler's rollback.
C16_Witness ==
    /\ ConfiguredChannels(environ) /= {}
    /\ \E s, t \in Subs :
        /\ pc[s] = "returned" /\ calls[s].dispatcher = 1
        /\ LogsOf(moderation_request[s]) = {}
        /\ \E j \in ResultsOf(moderation_request[s]) :
               Results[j].classification = "inappropriate"
        /\ Requests[moderation_request[s]].status = "completed"
        /\ pc[t] = "raised" /\ error[t].status_code = 500

\* C17: terminal Requests are immutable: in every state each Request has at most
\* one Result row, and a step taken while a Request is "completed" or "failed"
\* neither invokes the Analyzer for the submission of that Request nor inserts a
\* Result row for it.
C17_TerminalIsImmutable ==
    /\ [](\A i \in RequestIds : Cardinality(ResultsOf(i)) <= 1)
    /\ [][ \A i \in RequestIds :
               Requests[i].status \in Terminal
                   => /\ \A s \in SubmissionsOf(i) : calls'[s].analyzer = calls[s].analyzer
                      /\ { j \in 1..Len(store'.moderation_results) :
                               store'.moderation_results[j].request_id = i }
                             = ResultsOf(i) ]_vars

\* C17 witness: a "failed" Request and a "completed" Request, each with its one
\* Result, after both submissions have returned.
C17_Witness ==
    \E s, t \in Subs :
        /\ pc[s] = "returned" /\ pc[t] = "returned"
        /\ Requests[moderation_request[s]].status = "failed"
        /\ Requests[moderation_request[t]].status = "completed"
        /\ Cardinality(ResultsOf(moderation_request[s])) = 1
        /\ Cardinality(ResultsOf(moderation_request[t])) = 1
        /\ calls[s].analyzer = 1 /\ calls[t].analyzer = 1

\* C18: there is no automatic retry: a submission never invokes the Analyzer or
\* the dispatcher more than once nor posts to a channel more than once; once its
\* analysis is back, also with an "error" result, the Analyzer was invoked exactly
\* once, and a channel whose send failed was posted to exactly once.
C18_NoRetry ==
    \A s \in Subs :
        /\ calls[s].analyzer <= 1 /\ calls[s].dispatcher <= 1
        /\ calls[s].slack <= 1 /\ calls[s].email <= 1
        /\ pc[s] \in {"analyzed", "notify", "notified", "returned"} => calls[s].analyzer = 1
        /\ pc[s] = "notified"
               => /\ notification_results[s].slack.posted => calls[s].slack = 1
                  /\ notification_results[s].email.posted => calls[s].email = 1

\* C18 witness: one submission has returned with an "error" Result after one
\* Analyzer invocation, and another has logged a "failed" send to Slack after
\* one post.
C18_Witness ==
    \E s, t \in Subs :
        /\ pc[s] = "returned" /\ calls[s].analyzer = 1
        /\ \E j \in ResultsOf(moderation_request[s]) : Results[j].classification = "error"
        /\ pc[t] = "returned" /\ calls[t].slack = 1
        /\ \E j \in LogsOfChannel(moderation_request[t], "slack") : Logs[j].status = "failed"

\* C20: the content hash is a function of the submitted bytes only: the hash a
\* text submission stores is generate_image_hash of the UTF-8 encoding of its
\* text, and the hash any submission stores is the digest of its bytes, whatever
\* its content_type.
C20_HashOfBytesOnly ==
    /\ call.function = "moderate_text"
           => /\ ret.content_hash = generate_image_hash(encode(call.content))
              /\ ret.content_hash = sha256_hexdigest(encode(call.content))
              /\ ret.content_type = "text"
    /\ call.function = "moderate_image"
           => /\ ret.content_hash = sha256_hexdigest(call.content)
              /\ ret.content_type = "image"

\* C20 witness: a text with a character outside ASCII was hashed, and its hash is
\* the one an image of the bytes 195, 169 gets.
C20_Witness ==
    /\ call.function = "moderate_text"
    /\ call.content = <<233>>
    /\ ret.content_hash = generate_image_hash(<<195, 169>>)

\* C19: a caller disconnecting does not abort an in-progress analysis: a
\* submission whose pending row is committed is never cancelled before its Result
\* is committed; its next steps are the analysis and the commit of the Result
\* with a terminal status, which only a failure of the store itself turns into
\* the processing error; and a submission that was cancelled has either no
\* Request row or a terminal Request with its Result.
C19_DisconnectDoesNotAbort ==
    [][ \A s \in Subs :
            /\ pc[s] \in {"pending", "analyzed"}
                   => /\ pc'[s] \in {"pending", "analyzed", "notify", "returned", "raised"}
                      /\ pc'[s] = "raised" => error'[s].status_code = 500
                      /\ pc'[s] \in {"notify", "returned"}
                             => /\ store'.moderation_requests[moderation_request[s]].status
                                       \in Terminal
                                /\ \E j \in 1..Len(store'.moderation_results) :
                                       store'.moderation_results[j].request_id
                                           = moderation_request[s]
            /\ pc'[s] = "cancelled"
                   => \/ moderation_request[s] = NoId
                      \/ /\ Requests[moderation_request[s]].status \in Terminal
                         /\ ResultsOf(moderation_request[s]) /= {} ]_vars

\* C19 witness: one submission was cancelled while it awaited a notification
\* post, its Request terminal and its Result committed, and an upload was
\* cancelled while it was read, leaving no row.
C19_Witness ==
    \E s, t \in Subs :
        /\ pc[s] = "cancelled" /\ moderation_request[s] /= NoId
        /\ Requests[moderation_request[s]].status \in Terminal
        /\ ResultsOf(moderation_request[s]) /= {}
        /\ pc[t] = "cancelled" /\ moderation_request[t] = NoId

\* C14: the pipeline holds no store transaction open while the Analyzer runs:
\* from the commit of the pending row until analyze_text / analyze_image has
\* returned, the Session of the submission has no transaction open.
C14_NoTransactionAcrossAnalyze ==
    \A s \in Subs : pc[s] = "pending" => ~transaction[s]

\* C15: the backend is configured at most once, whatever the interleaving of the
\* submissions that call the Analyzer first: genai.configure has run at most
\* once in every state, and no step taken once _initialized is set runs it again.
C15_ConfiguredOnce ==
    /\ [](configures <= 1 /\ (initialized => configures = 1))
    /\ [][ initialized => configures' = configures ]_vars

\* C15 witness: two submissions stand between their Analyzer call and the commit
\* of its Result: both have called the Analyzer, the one that came first
\* configured the backend and the other reused it.
C15_Witness ==
    \E s, t \in Subs :
        /\ s /= t
        /\ pc[s] = "analyzed" /\ calls[s].analyzer = 1
        /\ pc[t] = "analyzed" /\ calls[t].analyzer = 1
        /\ initialized /\ configures = 1

\* The safety ratings of the response a direct analyzer call was answered with.
RatingsOfCall ==
    IF call.backend.response.candidates = <<>> THEN <<>>
    ELSE call.backend.response.candidates[1]

\* The score of a probability bucket by the fixed table, an unknown bucket
\* counting 0, and the largest score among a list of ratings (0 for no rating).
BucketScore(p) ==
    IF p = "NEGLIGIBLE" THEN 10 ELSE IF p = "LOW" THEN 30
    ELSE IF p = "MEDIUM" THEN 60 ELSE IF p = "HIGH" THEN 90 ELSE 0

MaxBucketScore(ratings) ==
    LET scores == { BucketScore(ratings[i].probability) : i \in 1..Len(ratings) } \cup {0}
    IN  CHOOSE m \in scores : \A x \in scores : x <= m

\* A direct analyzer call that returned a result other than "error".
AnalyzedWithoutError ==
    /\ call.function \in {"analyze_text", "analyze_image"}
    /\ ret.value.classification /= "error"

\* C21 as stated: for every non-error response the confidence returned by
\* analyze_text / analyze_image is the largest bucket score among the safety
\* ratings of the response.
C21_ConfidenceIsMaxScore ==
    AnalyzedWithoutError => ret.value.confidence = MaxBucketScore(RatingsOfCall)

\* C21 amended: the confidence is the largest bucket score among the safety
\* ratings when that is positive, and 0.85 when the response has no rating or
\* only ratings whose bucket has no score.
C21_ConfidenceIsMaxScoreOrDefault ==
    AnalyzedWithoutError
        => ret.value.confidence = IF MaxBucketScore(RatingsOfCall) > 0
                                  THEN MaxBucketScore(RatingsOfCall) ELSE 85

\* C21 witness: a response with a LOW rating followed by a MEDIUM one was given
\* the confidence 0.6.
C21_Witness ==
    /\ AnalyzedWithoutError
    /\ Len(RatingsOfCall) = 2
    /\ RatingsOfCall[1].probability = "LOW" /\ RatingsOfCall[2].probability = "MEDIUM"
    /\ ret.value.confidence = 60

\* C22: the classification is decided by the safety ratings alone: a non-error
\* result is "inappropriate" exactly when some rating of the response is MEDIUM
\* or HIGH, whatever the text of the response.
C22_ClassificationFromRatingsOnly ==
    AnalyzedWithoutError
        => (ret.value.classification = "inappropriate"
                <=> \E i \in 1..Len(RatingsOfCall) :
                        RatingsOfCall[i].probability \in {"MEDIUM", "HIGH"})

\* C23: the confidence of every analyzer result, and of the ModerationResult row
\* built from it, lies between 0 and 1 (0..100 hundredths), whatever the
\* response: any buckets, no candidates, or a fault.
C23_ConfidenceInUnitInterval ==
    call.function \in {"analyze_text", "analyze_image"}
        => /\ ret.value.confidence \in 0..100
           /\ ModerationResult(1, ret.value).confidence \in 0..100

\* C23 witness: a response with an unknown bucket and a HIGH one got 0.9, the
\* largest value the table holds.
C23_Witness ==
    /\ AnalyzedWithoutError
    /\ Len(RatingsOfCall) = 2
    /\ RatingsOfCall[1].probability = "HARM_PROBABILITY_UNSPECIFIED"
    /\ RatingsOfCall[2].probability = "HIGH"
    /\ ModerationResult(1, ret.value).confidence = 90

\* A variable of the environment that is set to a non-empty value.
IsSet(name) == environ[name] \notin {None, ""}

\* C30: a channel reports "skipped" exactly when its configuration is missing
\* (Slack: SLACK_WEBHOOK_URL unset or empty; e-mail: any of BREVO_API_KEY,
\* EMAIL_FROM, EMAIL_TO unset or empty), and a skipped channel posts nothing.
C30_SkippedIffUnconfigured ==
    call.function = "notify_inappropriate_content"
        => /\ ret.slack.status = "skipped" <=> ~IsSet("SLACK_WEBHOOK_URL")
           /\ ret.email.status = "skipped"
                  <=> ~(IsSet("BREVO_API_KEY") /\ IsSet("EMAIL_FROM") /\ IsSet("EMAIL_TO"))
           /\ ret.slack.status = "skipped" => posts(ret.slack) = 0
           /\ ret.email.status = "skipped" => posts(ret.email) = 0

\* C30 witness: SLACK_WEBHOOK_URL is empty and Slack was skipped without a post,
\* while the configured e-mail channel of the same call posted.
C30_Witness ==
    /\ call.function = "notify_inappropriate_content"
    /\ environ.SLACK_WEBHOOK_URL = ""
    /\ ret.slack.status = "skipped" /\ posts(ret.slack) = 0
    /\ ret.email.status /= "skipped" /\ posts(ret.email) = 1

\* An image Request whose bytes cannot be decoded: its content_hash is the hash
\* of an upload that PIL cannot open.
Undecodable(i) ==
    /\ Requests[i].content_type = "image"
    /\ \E image_bytes \in ImageInputs :
           /\ ~PIL_can_open(image_bytes)
           /\ Requests[i].content_hash = generate_image_hash(image_bytes)

\* C28: on the image path the status after analysis is "failed" iff the
\* classification of the Result is "error" and "completed" otherwise; and an image
\* whose bytes cannot be decoded, once its Result is committed, has status
\* "failed", exactly one Result, of classification "error", and no
\* NotificationLog row.
C28_ImageFailedIffError ==
    \A s \in Subs :
        (content_type[s] = "image" /\ pc[s] \in {"notify", "notified", "returned"})
            => LET i == moderation_request[s]
               IN  /\ ResultsOf(i) /= {}
                   /\ \A j \in ResultsOf(i) :
                          /\ Requests[i].status = "failed"
                                 <=> Results[j].classification = "error"
                          /\ Requests[i].status = "completed"
                                 <=> Results[j].classification /= "error"
                   /\ Undecodable(i)
                          => /\ Requests[i].status = "failed"
                             /\ Cardinality(ResultsOf(i)) = 1
                             /\ \A j \in ResultsOf(i) : Results[j].classification = "error"
                             /\ LogsOf(i) = {}
                             /\ pc[s] = "returned"

\* C28 witness: an undecodable image has returned "failed" with its "error"
\* Result, and a decodable one has returned "completed".
C28_Witness ==
    \E s, t \in Subs :
        /\ content_type[s] = "image" /\ pc[s] = "returned"
        /\ Undecodable(moderation_request[s])
        /\ Requests[moderation_request[s]].status = "failed"
        /\ \E j \in ResultsOf(moderation_request[s]) : Results[j].classification = "error"
        /\ content_type[t] = "image" /\ pc[t] = "returned"
        /\ ~Undecodable(moderation_request[t])
        /\ Requests[moderation_request[t]].status = "completed"

\* C29: when a submission has returned normally, text or image, the status of
\* its response is the status committed for the returned request_id, and that
\* request_id is the id of the row this submission created: the id its insert
\* was given, of its content type, and of no other submission.
C29_ResponseMatchesStore ==
    \A s \in Subs :
        pc[s] = "returned"
            => /\ response[s].request_id = moderation_request[s]
               /\ response[s].request_id \in RequestIds
               /\ response[s].status = Requests[response[s].request_id].status
               /\ Requests[response[s].request_id].content_type = content_type[s]
               /\ \A t \in Subs \ {s} : moderation_request[t] /= response[s].request_id

\* C29 witness: an image submission has returned "failed" and a text submission
\* has returned "completed".
C29_Witness ==
    \E s, t \in Subs :
        /\ pc[s] = "returned" /\ content_type[s] = "image"
        /\ response[s].status = "failed"
        /\ pc[t] = "returned" /\ content_type[t] = "text"
        /\ response[t].status = "completed"
        /\ response[s].request_id /= response[t].request_id

\* The Requests created by submissions made with a submitter identity.
SubmittedBy(user) ==
    { i \in RequestIds : \E s \in Subs : moderation_request[s] = i /\ submitter[s] = user }

\* C25: the analytics summary of a user who has submitted Requests, of either
\* content type, equals manual recomputation over those Requests: total_requests
\* is their number, the content_type and status breakdowns count them per type
\* and per status, and each breakdown sums to total_requests.
C25_AnalyticsEqualsRecomputation ==
    (call.function = "get_analytics_summary" /\ ~call.db_fault
     /\ SubmittedBy(call.user) /= {})
        => /\ ret.status_code = 200
           /\ LET mine == SubmittedBy(call.user)
                  body == ret.body
              IN  /\ body.total_requests = Cardinality(mine)
                  /\ \A t \in {"text", "image"} :
                         body.content_type_breakdown[t]
                             = Cardinality({ i \in mine : Requests[i].content_type = t })
                  /\ \A x \in {"pending", "completed", "failed"} :
                         body.status_breakdown[x]
                             = Cardinality({ i \in mine : Requests[i].status = x })
                  /\ body.content_type_breakdown["text"] + body.content_type_breakdown["image"]
                         = body.total_requests
                  /\ body.status_breakdown["pending"] + body.status_breakdown["completed"]
                         + body.status_breakdown["failed"] = body.total_requests

\* C26: for both content types the Request row a submission creates carries the
\* submitter identity the submission was given (none when it was given none), so
\* the Requests a query by submitter finds are exactly the ones submitted with
\* that identity.
C26_SubmitterIsRecorded ==
    /\ \A s \in Subs :
           moderation_request[s] /= NoId
               => Requests[moderation_request[s]].user_email = submitter[s]
    /\ \A user \in UserEmails \ {None} :
           user_requests(Requests, user) = SubmittedBy(user)

\* C27: once a Request row exists, no step changes its id, content_type,
\* content_hash, user_email or created_at, and no step removes it: the status
\* update, the notification logging, the error handling and the steps of every
\* other submission leave these columns as they were.
C27_OnlyStatusIsMutated ==
    [][ \A i \in RequestIds :
            /\ i <= Len(store'.moderation_requests)
            /\ store'.moderation_requests[i].id = Requests[i].id
            /\ store'.moderation_requests[i].content_type = Requests[i].content_type
            /\ store'.moderation_requests[i].content_hash = Requests[i].content_hash
            /\ store'.moderation_requests[i].user_email = Requests[i].user_email
            /\ store'.moderation_requests[i].created_at = Requests[i].created_at ]_vars

\* C27 witness: the first Request has gone from "pending" to a terminal status
\* and has notification log rows, a second Request was created after it, and the
\* first still has the id and the created_at its insert gave it.
C27_Witness ==
    /\ Len(Requests) = 2
    /\ Requests[1].status \in Terminal /\ LogsOf(1) /= {}
    /\ Requests[1].id = 1 /\ Requests[1].created_at = 1
    /\ Requests[2].created_at = 2
    /\ \E s \in Subs : moderation_request[s] = 2 /\ pc[s] = "returned"

\* A filter value that was given: absent and empty values select everything.
Given(v) == v \notin {None, ""}

\* The Requests of the store that match the filters of a list call.
Matching ==
    { i \in RequestIds :
        /\ Given(call.content_type) => Requests[i].content_type = call.content_type
        /\ Given(call.status) => Requests[i].status = call.status }

\* C24: the list query returns total equal to the number of Requests matching
\* the filters, whatever skip and limit are, and exactly
\* min(limit, max(0, total - skip)) items, each a different matching Request
\* shown with its stored columns, in an order in which created_at never increases.
C24_ListQuery ==
    call.function = "get_analysis_summaries"
        => /\ ret.total = Cardinality(Matching)
           /\ Len(ret.summaries)
                  = Min(call.limit, Max(0, Cardinality(Matching) - call.skip))
           /\ \A k \in 1..Len(ret.summaries) :
                  LET item == ret.summaries[k]
                  IN  /\ item.request_id \in Matching
                      /\ item.content_type = Requests[item.request_id].content_type
                      /\ item.status = Requests[item.request_id].status
                      /\ item.created_at = Requests[item.request_id].created_at
                      /\ \A l \in 1..Len(ret.summaries) :
                             /\ l /= k => ret.summaries[l].request_id /= item.request_id
                             /\ k < l => item.created_at >= ret.summaries[l].created_at

\* C24 witness: three stored Requests, two of them with the same created_at; a
\* call with a status filter, skip 1 and limit 1 found two matches and returned
\* the one item of the second page.
C24_Witness ==
    /\ call.function = "get_analysis_summaries"
    /\ Len(Requests) = 3 /\ Requests[2].created_at = Requests[3].created_at
    /\ call.status = "completed" /\ call.skip = 1 /\ call.limit = 1
    /\ ret.total = 2 /\ Len(ret.summaries) = 1
    /\ ret.summaries[1].status = "completed"

\* C31: a configured channel always reports "sent" or "failed": Slack "sent" iff
\* the message was built, the post did not raise and the webhook answered 200;
\* e-mail "sent" iff the message was built, the post did not raise and the API
\* answered 200 or 201; every other answer and every exception (a missing
\* confidence or classification included) gives "failed"; and a result that is
\* logged has the status "sent" or "failed".
C31_ConfiguredChannelSentOrFailed ==
    call.function = "notify_inappropriate_content"
        => /\ IsSet("SLACK_WEBHOOK_URL")
                  => /\ ret.slack.status \in {"sent", "failed"}
                     /\ ret.slack.status = "sent"
                            <=> /\ (call.args.classification /= None /\ call.args.confidence /= -1)
                                /\ ~call.slack_http.raised
                                /\ call.slack_http.status_code = 200
           /\ (IsSet("BREVO_API_KEY") /\ IsSet("EMAIL_FROM") /\ IsSet("EMAIL_TO"))
                  => /\ ret.email.status \in {"sent", "failed"}
                     /\ ret.email.status = "sent"
                            <=> /\ (call.args.classification /= None /\ call.args.confidence /= -1)
                                /\ ~call.email_http.raised
                                /\ call.email_http.status_code \in {200, 201}
           /\ \A channel \in {"slack", "email"} :
                  is_logged(ret[channel]) => ret[channel].status \in {"sent", "failed"}

\* C31 witness: both channels configured, the confidence missing although both
\* endpoints would answer 200: both channels report "failed" without a post.
C31_Witness ==
    /\ call.function = "notify_inappropriate_content"
    /\ IsSet("SLACK_WEBHOOK_URL")
    /\ IsSet("BREVO_API_KEY") /\ IsSet("EMAIL_FROM") /\ IsSet("EMAIL_TO")
    /\ call.args.confidence = -1 /\ call.args.classification = "inappropriate"
    /\ ~call.slack_http.raised /\ call.slack_http.status_code = 200
    /\ ~call.email_http.raised /\ call.email_http.status_code = 200
    /\ ret.slack.status = "failed" /\ ret.email.status = "failed"
    /\ posts(ret.slack) = 0 /\ posts(ret.email) = 0

\* C32: for an "inappropriate" result the dispatcher is invoked, and the flagged
\* categories it is handed are the list the Analyzer serialized into
\* llm_response, element by element in the same order; for a payload that is
\* empty, not JSON, or a document without flagged_categories, it is invoked with
\* the empty list.
C32_FlaggedCategoriesRoundTrip ==
    (call.function = "notification_block"
     /\ call.analysis_result.classification = "inappropriate")
        => /\ ret.dispatched
           /\ call.payload = "analyzer"
                  => ret.args.flagged_categories
                         = extract_safety_ratings(call.backend.response).flagged_categories
           /\ call.payload \in OtherPayloads => ret.args.flagged_categories = <<>>

\* C32 witness: a response with two different categories rated MEDIUM or HIGH:
\* the dispatcher got both names, in rating order.
C32_Witness ==
    /\ call.function = "notification_block" /\ call.payload = "analyzer"
    /\ ret.dispatched
    /\ Len(RatingsOfCall) = 2
    /\ Len(ret.args.flagged_categories) = 2
    /\ ret.args.flagged_categories[1] = HARM_CATEGORIES(RatingsOfCall[1].category)
    /\ ret.args.flagged_categories[2] = HARM_CATEGORIES(RatingsOfCall[2].category)
    /\ ret.args.flagged_categories[1] /= ret.args.flagged_categories[2]

\* C33: an image upload of a type that is not allowed is rejected with a 400
\* error, never a 500: the submission has no Request, no session content and no
\* Analyzer or dispatcher call, and the step that rejects it leaves the store,
\* every call count and the backend configuration as they were.
C33_InvalidTypeIsRejectedUnchanged ==
    /\ [](\A s \in Subs :
             (content_type[s] = "image" /\ declared[s] \notin {"image/jpeg", "image/jpg", "image/png", "image/gif", "image/webp"})
                 => /\ pc[s] = "raised" /\ error[s].status_code = 400
                    /\ moderation_request[s] = NoId
                    /\ session[s] = EmptySession
                    /\ calls[s] = NoCalls)
    /\ [][ \A s \in Subs :
               (pc[s] = "idle" /\ content_type'[s] = "image"
                /\ declared'[s] \notin {"image/jpeg", "image/jpg", "image/png",
                                         "image/gif", "image/webp"})
                   => /\ store' = store
                      /\ calls' = calls
                      /\ initialized' = initialized /\ configures' = configures ]_vars

\* C33 witness: a PDF upload was rejected with 400 after another submission had
\* completed; the store holds that one Request and its Result, nothing more.
C33_Witness ==
    \E s, t \in Subs :
        /\ (content_type[s] = "image" /\ declared[s] \notin {"image/jpeg", "image/jpg", "image/png", "image/gif", "image/webp"}) /\ pc[s] = "raised" /\ error[s].status_code = 400
        /\ pc[t] = "returned"
        /\ Len(Requests) = 1 /\ Len(Results) = 1
        /\ moderation_request[t] = 1

\* C34: while the store can be queried, the summary of a user with no stored
\* Request is a 404 (neither a summary nor a 500), and the summary of a user whose
\* Requests have no Result with a confidence is returned with average_confidence
\* absent.
C34_NoRequestsIsNotFound ==
    (call.function = "get_analytics_summary" /\ ~call.db_fault)
        => /\ user_requests(Requests, call.user) = {} => ret.status_code = 404
           /\ (user_requests(Requests, call.user) /= {} /\ (\A j \in 1..Len(Results) :
                     Results[j].request_id \in user_requests(Requests, call.user)
                         => Results[j].confidence = -1))
                  => /\ ret.status_code = 200
                     /\ ret.body.average_confidence = [sum |-> -1, len |-> 0]

\* C35: on an unchanged store the pages read with skip = 0, k, 2k, ... hold every
\* Request matching the filters exactly once, none repeated and none missing,
\* also when Requests share a created_at value.
C35_PagingIsStable ==
    (call.function = "pages of get_analysis_summaries" /\ call.done)
        => /\ Len(ret.request_ids) = Cardinality(Matching)
           /\ \A i \in Matching :
                  Cardinality({ k \in 1..Len(ret.request_ids) : ret.request_ids[k] = i }) = 1

\* C36: referential integrity: every Result row and every NotificationLog row
\* refers to an existing Request row, the one created by the same submission
\* (the row names the Request of exactly one submission, and the step that
\* inserts the row is a step of that submission); Request ids are unique, never
\* change, and a Request inserted later has a greater id and no earlier creation
\* time than every Request before it.
C36_ReferentialIntegrity ==
    /\ [](
           /\ \A t \in {"moderation_results", "notification_logs"} : \A j \in 1..Len(store[t]) :
                 /\ store[t][j].request_id \in RequestIds
                 /\ Requests[store[t][j].request_id].id = store[t][j].request_id
                 /\ Cardinality(SubmissionsOf(store[t][j].request_id)) = 1
           /\ \A i, j \in RequestIds :
                 /\ i /= j => Requests[i].id /= Requests[j].id
                 /\ i < j => /\ Requests[i].id < Requests[j].id
                             /\ Requests[i].created_at <= Requests[j].created_at)
    /\ [][
           /\ \A t \in {"moderation_results", "notification_logs"} : \A j \in (Len(store[t]) + 1)..Len(store'[t]) :
                 \E s \in Subs : /\ pc'[s] /= pc[s]
                                  /\ store'[t][j].request_id = moderation_request[s]
           /\ \A i \in RequestIds :
                 /\ i <= Len(store'.moderation_requests)
                 /\ store'.moderation_requests[i].id = Requests[i].id
           /\ \A j \in (Len(Requests) + 1)..Len(store'.moderation_requests) :
                 \A i \in RequestIds :
                     store'.moderation_requests[j].id > Requests[i].id ]_vars

\* C36 witness: both submissions have returned, the second one's Request has id 2,
\* and each Request has a Result row and a NotificationLog row of its own.
C36_Witness ==
    /\ \A s \in Subs : pc[s] = "returned"
    /\ Len(Requests) = 2
    /\ \A i \in RequestIds : ResultsOf(i) /= {} /\ LogsOf(i) /= {}
    /\ \E j \in 1..Len(Logs) : Logs[j].request_id = 2

\* C37: analyze_image leaves no uploaded file behind: whenever a call has
\* uploaded the image and returned, with a classification or with "error", it
\* has deleted the uploaded file or at least attempted to.
C37_UploadedFileIsCleanedUp ==
    (call.function = "analyze_image" /\ ret.uploaded) => ret.delete_attempted

====
